---- MODULE Spec2Model ----
(***************************************************************************)
(* Model of the documents-api background processing core:                  *)
(*   - database.py            per-event-loop asyncpg pool registry         *)
(*   - utils/retry_utils.py   retry_with_backoff decorator                 *)
(*   - tasks/document_processing.py  process_document_pipeline             *)
(*   - utils/websocket_handler.py    TaskPoller                            *)
(* Each component has its own specification over a shared set of           *)
(* variables; a specification leaves the other components' variables       *)
(* untouched.                                                              *)
(***************************************************************************)
EXTENDS Integers, Sequences, FiniteSets, TLC

None == 0

(***************************************************************************)
(* Bounds                                                                  *)
(***************************************************************************)
NumCallers == 3
NumLoops == 2
MaxRetriesArg == 3      \* largest max_retries argument tried
MaxDelayArg == 5        \* largest max_delay argument tried
MaxInitialDelayArg == 3 \* largest initial_delay argument tried
NumJobs == 2            \* task ids
StartTime == 10         \* time.time() when a connection starts polling
TimeHorizon == 3        \* seconds of polling
NumTasks == 1           \* task ids a client subscribes to

Callers == 1..NumCallers
Loops == 1..NumLoops
Jobs == 1..NumJobs

VARIABLES
    pools,          \* database._pools: loop id -> pool (None when absent)
    pool_locks,     \* database._pool_locks: loop id -> lock (None when absent)
    lockState,      \* asyncio.Lock objects: locked flag and FIFO waiters
    poolState,      \* asyncpg.Pool objects: "unborn", "open", "closing", "closed"
    poolLoop,       \* the loop id each pool was constructed for
    task,           \* the coroutines calling into database.py
    database_url,   \* os.getenv("DATABASE_URL") is set
    nCreate,        \* number of asyncpg.create_pool invocations per loop id
    retry,          \* one call of a function decorated with retry_with_backoff
    pipe,           \* one run of process_document_pipeline
    writes,         \* the calls of set_task_state_in_redis made by that run
    store,          \* Redis: task id -> the snapshot stored under task:state:<id>
    poller,         \* one TaskPoller: its fields and the position of its tasks
    poll,           \* the poll_single_task coroutine of each task id
    now,            \* time.time()
    peer,           \* the client end of the WebSocket: "up" or "gone"
    conn            \* one run of the websocket_tasks endpoint

poolVars == <<pools, pool_locks, lockState, poolState, poolLoop, task,
              database_url, nCreate>>

retryVars == <<retry>>

pipeVars == <<pipe, writes>>
storeVars == <<store>>
pollVars == <<poller, poll, now, peer, conn>>

vars == <<poolVars, retryVars, pipeVars, storeVars, pollVars>>

(***************************************************************************)
(* database.py                                                             *)
(*                                                                         *)
(* A pool and a lock are identified by the caller that constructed them    *)
(* (a caller constructs at most one of each).  A coroutine runs atomically *)
(* between two await points, as coroutines of one event loop do.           *)
(***************************************************************************)
IdleTask == [op |-> "none", pc |-> "idle", loop |-> None, lock |-> None,
             pool |-> None, todo |-> <<>>, ret |-> None, err |-> "none",
             waited |-> FALSE, seen |-> {}]

FreshLock == [locked |-> FALSE, waiters |-> <<>>]

\* pool and not pool.is_closing()
IsLive(p) == p # None /\ poolState[p] = "open"

InitPool ==
    /\ pools = [l \in Loops |-> None]
    /\ pool_locks = [l \in Loops |-> None]
    /\ lockState = [k \in Callers |-> FreshLock]
    /\ poolState = [p \in Callers |-> "unborn"]
    /\ poolLoop = [p \in Callers |-> None]
    /\ task = [t \in Callers |-> IdleTask]
    /\ database_url \in BOOLEAN
    /\ nCreate = [l \in Loops |-> 0]

IdlePool ==
    /\ pools = [l \in Loops |-> None]
    /\ pool_locks = [l \in Loops |-> None]
    /\ lockState = [k \in Callers |-> FreshLock]
    /\ poolState = [p \in Callers |-> "unborn"]
    /\ poolLoop = [p \in Callers |-> None]
    /\ task = [t \in Callers |-> [IdleTask EXCEPT !.pc = "off"]]
    /\ database_url = TRUE
    /\ nCreate = [l \in Loops |-> 0]

\* asyncio.Lock.release followed by the end of the coroutine
Finish(t, lk, result, error) ==
    /\ task' = [task EXCEPT ![t].pc = "done", ![t].ret = result, ![t].err = error]
    /\ lockState' = IF lk = None THEN lockState
                    ELSE [lockState EXCEPT ![lk].locked = FALSE]

\* get_pool, lines 48-63: the body of "async with lock" up to the await of
\* asyncpg.create_pool.  ls is the lock table after the caller took the lock lk.
EnterLocked(t, l, lk, P, ls, w) ==
    IF IsLive(P[l])
    THEN /\ task' = [task EXCEPT ![t].pc = "done", ![t].ret = P[l],
                                 ![t].op = "get_pool", ![t].loop = l,
                                 ![t].lock = lk, ![t].waited = w]
         /\ lockState' = [ls EXCEPT ![lk].locked = FALSE]
         /\ UNCHANGED nCreate
    ELSE IF ~database_url
    THEN /\ task' = [task EXCEPT ![t].pc = "done", ![t].err = "ValueError",
                                 ![t].op = "get_pool", ![t].loop = l,
                                 ![t].lock = lk, ![t].waited = w]
         /\ lockState' = [ls EXCEPT ![lk].locked = FALSE]
         /\ UNCHANGED nCreate
    ELSE /\ task' = [task EXCEPT ![t].pc = "creating",
                                 ![t].op = "get_pool", ![t].loop = l,
                                 ![t].lock = lk, ![t].waited = w]
         /\ lockState' = [ls EXCEPT ![lk].locked = TRUE]
         /\ nCreate' = [nCreate EXCEPT ![l] = @ + 1]

\* get_pool, lines 31-48: fast path, lock lookup, first attempt to take the lock
GetPoolStart(t, l) ==
    /\ task[t].pc = "idle"
    /\ IF IsLive(pools[l])
       THEN /\ task' = [task EXCEPT ![t].pc = "done", ![t].ret = pools[l],
                                    ![t].op = "get_pool", ![t].loop = l]
            /\ UNCHANGED <<pools, pool_locks, lockState, nCreate>>
       ELSE LET P == [pools EXCEPT ![l] = None]
                lk == IF pool_locks[l] = None THEN t ELSE pool_locks[l]
                ls == IF pool_locks[l] = None
                      THEN [lockState EXCEPT ![t] = FreshLock]
                      ELSE lockState
            IN  /\ pools' = P
                /\ pool_locks' = [pool_locks EXCEPT ![l] = lk]
                /\ IF ~ls[lk].locked /\ ls[lk].waiters = <<>>
                   THEN EnterLocked(t, l, lk, P, ls, FALSE)
                   ELSE /\ task' = [task EXCEPT ![t].pc = "waiting",
                                                ![t].op = "get_pool",
                                                ![t].loop = l, ![t].lock = lk,
                                                ![t].waited = TRUE]
                        /\ lockState' = [ls EXCEPT ![lk].waiters = Append(@, t)]
                        /\ UNCHANGED nCreate
    /\ UNCHANGED <<poolState, poolLoop, database_url, retryVars, pipeVars, storeVars, pollVars>>

\* get_pool without the double-check after the lock is taken
GetPoolAcquiredNoRecheck(t) ==
    /\ task[t].pc = "waiting"
    /\ LET lk == task[t].lock
       IN  /\ ~lockState[lk].locked
           /\ lockState[lk].waiters # <<>>
           /\ Head(lockState[lk].waiters) = t
           /\ EnterLocked(t, task[t].loop, lk, [l \in Loops |-> None],
                          [lockState EXCEPT ![lk].waiters = Tail(@)], TRUE)
    /\ UNCHANGED <<pools, pool_locks, poolState, poolLoop, database_url, retryVars, pipeVars, storeVars, pollVars>>

\* get_pool, lines 48-54: a waiter is woken, takes the lock and double-checks
GetPoolAcquired(t) ==
    /\ task[t].pc = "waiting"
    /\ LET lk == task[t].lock
       IN  /\ ~lockState[lk].locked
           /\ lockState[lk].waiters # <<>>
           /\ Head(lockState[lk].waiters) = t
           /\ EnterLocked(t, task[t].loop, lk, pools,
                          [lockState EXCEPT ![lk].waiters = Tail(@)], TRUE)
    /\ UNCHANGED <<pools, pool_locks, poolState, poolLoop, database_url, retryVars, pipeVars, storeVars, pollVars>>

\* get_pool that leaves the lock taken when asyncpg.create_pool raises
GetPoolCreatedLockKept(t) ==
    /\ task[t].pc = "creating"
    /\ \/ /\ poolState' = [poolState EXCEPT ![t] = "open"]
          /\ poolLoop' = [poolLoop EXCEPT ![t] = task[t].loop]
          /\ pools' = [pools EXCEPT ![task[t].loop] = t]
          /\ Finish(t, task[t].lock, t, "none")
       \/ /\ Finish(t, None, None, "ConnectionError")
          /\ UNCHANGED <<pools, poolState, poolLoop>>
    /\ UNCHANGED <<pool_locks, database_url, nCreate, retryVars, pipeVars, storeVars, pollVars>>

\* get_pool, lines 64-76: asyncpg.create_pool returns or raises
GetPoolCreated(t) ==
    /\ task[t].pc = "creating"
    /\ \/ /\ poolState' = [poolState EXCEPT ![t] = "open"]
          /\ poolLoop' = [poolLoop EXCEPT ![t] = task[t].loop]
          /\ pools' = [pools EXCEPT ![task[t].loop] = t]
          /\ Finish(t, task[t].lock, t, "none")
       \/ /\ Finish(t, task[t].lock, None, "ConnectionError")
          /\ UNCHANGED <<pools, poolState, poolLoop>>
    /\ UNCHANGED <<pool_locks, database_url, nCreate, retryVars, pipeVars, storeVars, pollVars>>

\* close_pool, lines 84-96 up to the await of pool.close(): the registry,
\* lock table and pool states after the synchronous part, and the pool whose
\* close() the caller is suspended in (None when the call ran to its end).
ClosePoolSync(l, P, L, S) ==
    IF P[l] # None
    THEN IF S[P[l]] = "open"
         THEN [pools |-> P, locks |-> L,
               state |-> [S EXCEPT ![P[l]] = "closing"], closing |-> P[l]]
         ELSE [pools |-> [P EXCEPT ![l] = None],
               locks |-> [L EXCEPT ![l] = None],
               state |-> S, closing |-> None]
    ELSE [pools |-> P, locks |-> [L EXCEPT ![l] = None],
          state |-> S, closing |-> None]

\* close_all_pools, lines 101-103: close_pool for each remaining loop id until
\* one of the calls suspends in pool.close()
RECURSIVE CloseAllRun(_, _, _, _)
CloseAllRun(todo, P, L, S) ==
    IF todo = <<>>
    THEN [pools |-> P, locks |-> L, state |-> S, closing |-> None,
          loop |-> None, todo |-> <<>>]
    ELSE LET r == ClosePoolSync(Head(todo), P, L, S)
         IN  IF r.closing # None
             THEN [pools |-> r.pools, locks |-> r.locks, state |-> r.state,
                   closing |-> r.closing, loop |-> Head(todo),
                   todo |-> Tail(todo)]
             ELSE CloseAllRun(Tail(todo), r.pools, r.locks, r.state)

\* the caller runs close_pool over todo from the registry (P, S); seen is the
\* set of pools registered when the caller's call began
CloseStep(t, op, todo, P, L, S) ==
    LET r == CloseAllRun(todo, P, L, S)
    IN  /\ pools' = r.pools
        /\ pool_locks' = r.locks
        /\ poolState' = r.state
        /\ task' = [task EXCEPT
                      ![t].op = op,
                      ![t].seen = IF task[t].pc = "idle"
                                  THEN {P[l] : l \in Loops} \ {None} ELSE @,
                      ![t].pc = IF r.closing = None THEN "done" ELSE "closing",
                      ![t].loop = r.loop,
                      ![t].pool = r.closing,
                      ![t].todo = r.todo]

\* close_pool(loop_id), lines 79-93
ClosePoolStart(t, l) ==
    /\ task[t].pc = "idle"
    /\ CloseStep(t, "close_pool", <<l>>, pools, pool_locks, poolState)
    /\ UNCHANGED <<lockState, poolLoop, database_url, nCreate, retryVars, pipeVars, storeVars, pollVars>>

Orders(S) == {s \in [1..Cardinality(S) -> S] :
                 \A i, j \in 1..Cardinality(S) : i # j => s[i] # s[j]}

\* close_all_pools, lines 99-103: loop_ids = list(_pools.keys())
CloseAllStart(t) ==
    /\ task[t].pc = "idle"
    /\ \E ids \in Orders({l \in Loops : pools[l] # None}) :
          CloseStep(t, "close_all_pools", ids, pools, pool_locks, poolState)
    /\ UNCHANGED <<lockState, poolLoop, database_url, nCreate, retryVars, pipeVars, storeVars, pollVars>>

\* close_pool, lines 92-96 after pool.close() returned: del _pools[loop_id]
\* raises KeyError when the entry is gone; close_all_pools goes on with the
\* remaining loop ids
ClosePoolClosed(t) ==
    /\ task[t].pc = "closing"
    /\ LET l == task[t].loop
           S == [poolState EXCEPT ![task[t].pool] = "closed"]
       IN  IF pools[l] = None
           THEN /\ task' = [task EXCEPT ![t].pc = "done", ![t].err = "KeyError"]
                /\ poolState' = S
                /\ UNCHANGED <<pools, pool_locks>>
           ELSE CloseStep(t, task[t].op, task[t].todo,
                          [pools EXCEPT ![l] = None],
                          [pool_locks EXCEPT ![l] = None], S)
    /\ UNCHANGED <<lockState, poolLoop, database_url, nCreate, retryVars, pipeVars, storeVars, pollVars>>


(***************************************************************************)
(* utils/retry_utils.py                                                    *)
(***************************************************************************)
DEFAULT_MAX_RETRIES == 3

\* The exceptions the wrapped function raises: the attributes and the message
\* fragments is_rate_limit_error looks at.
ErrorKinds ==
    { [status_code |-> 429, text |-> "too many requests", code |-> 0],
      [status_code |-> 500, text |-> "quota exceeded", code |-> 0],
      [status_code |-> 0, text |-> "resource exhausted", code |-> 429],
      [status_code |-> 400, text |-> "validation failed", code |-> 0] }

NoError == [id |-> 0, kind |-> [status_code |-> 0, text |-> "", code |-> 0]]

\* '429' in error_str or 'rate limit' in error_str or 'quota' in error_str
MentionsRateLimit(text) ==
    text \in {"429 too many requests", "rate limit reached", "quota exceeded"}

is_rate_limit_error(e) ==
    \/ e.kind.status_code = 429
    \/ MentionsRateLimit(e.kind.text)
    \/ e.kind.code = 429

\* the retry_on argument of the decorator
RetryOnArgs == {"always", "never", "is_rate_limit_error"}

retry_on(e) ==
    CASE retry.retry_on = "always" -> TRUE
      [] retry.retry_on = "never" -> FALSE
      [] OTHER -> is_rate_limit_error(e)

Min(a, b) == IF a <= b THEN a ELSE b

InitRetry ==
    \E w \in {"sync", "async"}, m \in 0..MaxRetriesArg,
       d \in 1..MaxInitialDelayArg,
       md \in {2, MaxDelayArg}, k \in 1..2, r \in RetryOnArgs :
        retry = [wrapper |-> w, max_retries |-> m, initial_delay |-> d,
                 max_delay |-> md, backoff_multiplier |-> k, retry_on |-> r,
                 pc |-> "call", attempt |-> 0, delay |-> d,
                 last_exception |-> NoError, calls |-> 0, sleeps |-> <<>>,
                 raised |-> NoError]

IdleRetry ==
    retry = [wrapper |-> "sync", max_retries |-> DEFAULT_MAX_RETRIES,
             initial_delay |-> 1, max_delay |-> 2, backoff_multiplier |-> 1,
             retry_on |-> "always", pc |-> "idle", attempt |-> 0, delay |-> 1,
             last_exception |-> NoError, calls |-> 0, sleeps |-> <<>>,
             raised |-> NoError]

\* sync_wrapper with "attempt > max_retries" as the last-attempt test
sync_wrapper_call_late ==
    /\ retry.wrapper = "sync"
    /\ retry.pc = "call"
    /\ \/ retry' = [retry EXCEPT !.calls = @ + 1, !.pc = "returned"]
       \/ \E kind \in ErrorKinds :
            LET e == [id |-> retry.calls + 1, kind |-> kind]
            IN  IF ~retry_on(e) \/ retry.attempt > retry.max_retries
                THEN retry' = [retry EXCEPT !.calls = @ + 1,
                                  !.last_exception = e,
                                  !.pc = "raised", !.raised = e]
                ELSE retry' = [retry EXCEPT !.calls = @ + 1,
                                  !.last_exception = e,
                                  !.pc = "sleeping",
                                  !.sleeps = Append(@, retry.delay)]
    /\ UNCHANGED <<poolVars, pipeVars, storeVars, pollVars>>

\* sync_wrapper that never consults retry_on
sync_wrapper_call_blind ==
    /\ retry.wrapper = "sync"
    /\ retry.pc = "call"
    /\ \/ retry' = [retry EXCEPT !.calls = @ + 1, !.pc = "returned"]
       \/ \E kind \in ErrorKinds :
            LET e == [id |-> retry.calls + 1, kind |-> kind]
            IN  IF retry.attempt >= retry.max_retries
                THEN retry' = [retry EXCEPT !.calls = @ + 1,
                                  !.last_exception = e,
                                  !.pc = "raised", !.raised = e]
                ELSE retry' = [retry EXCEPT !.calls = @ + 1,
                                  !.last_exception = e,
                                  !.pc = "sleeping",
                                  !.sleeps = Append(@, retry.delay)]
    /\ UNCHANGED <<poolVars, pipeVars, storeVars, pollVars>>

\* sync_wrapper, lines 71-97: one iteration of the loop up to time.sleep
sync_wrapper_call ==
    /\ retry.wrapper = "sync"
    /\ retry.pc = "call"
    /\ \/ retry' = [retry EXCEPT !.calls = @ + 1, !.pc = "returned"]
       \/ \E kind \in ErrorKinds :
            LET e == [id |-> retry.calls + 1, kind |-> kind]
            IN  IF ~retry_on(e)
                THEN retry' = [retry EXCEPT !.calls = @ + 1,
                                  !.last_exception = e,
                                  !.pc = "raised", !.raised = e]
                ELSE IF retry.attempt >= retry.max_retries
                THEN retry' = [retry EXCEPT !.calls = @ + 1,
                                  !.last_exception = e,
                                  !.pc = "raised", !.raised = e]
                ELSE retry' = [retry EXCEPT !.calls = @ + 1,
                                  !.last_exception = e,
                                  !.pc = "sleeping",
                                  !.sleeps = Append(@, retry.delay)]
    /\ UNCHANGED <<poolVars, pipeVars, storeVars, pollVars>>

\* sync_wrapper, lines 97-106: time.sleep returns, the next delay is computed
\* and the loop goes on or ends
sync_wrapper_wake ==
    /\ retry.wrapper = "sync"
    /\ retry.pc = "sleeping"
    /\ LET d == Min(retry.delay * retry.backoff_multiplier, retry.max_delay)
       IN  IF retry.attempt + 1 <= retry.max_retries
           THEN retry' = [retry EXCEPT !.delay = d, !.attempt = @ + 1,
                                       !.pc = "call"]
           ELSE retry' = [retry EXCEPT !.delay = d, !.attempt = @ + 1,
                                       !.pc = "raised",
                                       !.raised = retry.last_exception]
    /\ UNCHANGED <<poolVars, pipeVars, storeVars, pollVars>>

\* async_wrapper, lines 113-139: one iteration of the loop up to asyncio.sleep
async_wrapper_call ==
    /\ retry.wrapper = "async"
    /\ retry.pc = "call"
    /\ \/ retry' = [retry EXCEPT !.calls = @ + 1, !.pc = "returned"]
       \/ \E kind \in ErrorKinds :
            LET e == [id |-> retry.calls + 1, kind |-> kind]
            IN  IF ~retry_on(e)
                THEN retry' = [retry EXCEPT !.calls = @ + 1,
                                  !.last_exception = e,
                                  !.pc = "raised", !.raised = e]
                ELSE IF retry.attempt >= retry.max_retries
                THEN retry' = [retry EXCEPT !.calls = @ + 1,
                                  !.last_exception = e,
                                  !.pc = "raised", !.raised = e]
                ELSE retry' = [retry EXCEPT !.calls = @ + 1,
                                  !.last_exception = e,
                                  !.pc = "sleeping",
                                  !.sleeps = Append(@, retry.delay)]
    /\ UNCHANGED <<poolVars, pipeVars, storeVars, pollVars>>

\* async_wrapper whose next delay is not capped by max_delay
async_wrapper_wake_uncapped ==
    /\ retry.wrapper = "async"
    /\ retry.pc = "sleeping"
    /\ LET d == retry.delay * retry.backoff_multiplier
       IN  IF retry.attempt + 1 <= retry.max_retries
           THEN retry' = [retry EXCEPT !.delay = d, !.attempt = @ + 1,
                                       !.pc = "call"]
           ELSE retry' = [retry EXCEPT !.delay = d, !.attempt = @ + 1,
                                       !.pc = "raised",
                                       !.raised = retry.last_exception]
    /\ UNCHANGED <<poolVars, pipeVars, storeVars, pollVars>>

\* async_wrapper, lines 139-148: asyncio.sleep returns
async_wrapper_wake ==
    /\ retry.wrapper = "async"
    /\ retry.pc = "sleeping"
    /\ LET d == Min(retry.delay * retry.backoff_multiplier, retry.max_delay)
       IN  IF retry.attempt + 1 <= retry.max_retries
           THEN retry' = [retry EXCEPT !.delay = d, !.attempt = @ + 1,
                                       !.pc = "call"]
           ELSE retry' = [retry EXCEPT !.delay = d, !.attempt = @ + 1,
                                       !.pc = "raised",
                                       !.raised = retry.last_exception]
    /\ UNCHANGED <<poolVars, pipeVars, storeVars, pollVars>>

(***************************************************************************)
(* utils/redis_utils.py: the task-state snapshots                          *)
(***************************************************************************)
NoResult == [present |-> FALSE, document_id |-> None, embedding |-> "None",
             classification |-> "None", token_usage |-> "None"]

NoSnapshot == [state |-> "absent", step |-> None, message |-> "",
               error |-> "", result |-> NoResult]

\* state_data of set_task_state_in_redis, lines 95-103; a meta without "step"
\* or "error" has None or "" there, and result is included only when truthy
Snapshot(state, step, message, error, result) ==
    [state |-> state, step |-> step, message |-> message, error |-> error,
     result |-> result]

IdleStore == store = [j \in Jobs |-> NoSnapshot]

\* set_task_state_in_redis, lines 79-111: the write reaches Redis, or the
\* client cannot be created or setex fails and the error is only logged
SetTaskState(j, snap) ==
    /\ writes' = Append(writes, snap)
    /\ \/ store' = [store EXCEPT ![j] = snap]
       \/ store' = store

(***************************************************************************)
(* tasks/document_processing.py: process_document_pipeline                 *)
(*                                                                         *)
(* self.update_state (the Celery result backend) succeeds in the pipeline   *)
(* actions; UpdateStateRaises is the call that fails.  time.sleep is part   *)
(* of the failed attempt.                                                  *)
(***************************************************************************)
MAX_RETRIES == 3
BACKOFF_CAP == 60
EMBED_MIN_CONTENT == 100

Steps == {"extract", "classify", "embed", "persist"}
NoCalls == [s \in Steps |-> 0]

RECURSIVE Pow2(_)
Pow2(n) == IF n = 0 THEN 1 ELSE 2 * Pow2(n - 1)

\* a backoff that starts at one second
BackoffFromOne(attempt) == Min(Pow2(attempt - 1), BACKOFF_CAP)

\* min(2 ** attempt, 60)
Backoff(attempt) == Min(Pow2(attempt), BACKOFF_CAP)

\* len(content.strip()) of the extracted content
ContentLengths == {0, EMBED_MIN_CONTENT, EMBED_MIN_CONTENT + 1}

IdlePipe ==
    /\ pipe = [task_id |-> None, document_id |-> None, deleted_id |-> None,
               pc |-> "off", attempt |-> 0, content_len |-> 0,
               calls |-> NoCalls, sleeps |-> <<>>, events |-> <<>>,
               embedding_result |-> "None", exhausted |-> "none",
               embed_exhausted |-> FALSE, persisted |-> FALSE,
               deletes |-> 0, document |-> "present",
               last_error |-> "none", celery_state |-> "PENDING",
               registered |-> {}, loops_opened |-> 0,
               close_pool_calls |-> 0, loops_closed |-> 0]
    /\ writes = <<>>

InitPipe ==
    /\ \E j \in Jobs, d \in Jobs :
        pipe = [task_id |-> j, document_id |-> d, deleted_id |-> None,
                pc |-> "start", attempt |-> 0, content_len |-> 0,
                calls |-> NoCalls, sleeps |-> <<>>, events |-> <<>>,
                embedding_result |-> "None", exhausted |-> "none",
                embed_exhausted |-> FALSE, persisted |-> FALSE,
                deletes |-> 0, document |-> "present",
               last_error |-> "none", celery_state |-> "PENDING",
               registered |-> {}, loops_opened |-> 0,
               close_pool_calls |-> 0, loops_closed |-> 0]
    /\ writes = <<>>

\* a failed attempt that is not the last: lines 651-658 (and the same lines of
\* the other three loops)
Retry(step, ev) ==
    [pipe EXCEPT !.calls[step] = @ + 1,
                 !.attempt = @ + 1,
                 !.sleeps = Append(@, [step |-> step,
                                       backoff |-> Backoff(pipe.attempt + 1)]),
                 !.events = @ \o <<ev, "sleep">>]

\* the first snapshot with a write whose failure reaches the pipeline
PipelineStartWriteRaises ==
    /\ pipe.pc = "start"
    /\ writes' = Append(writes,
          Snapshot("PROCESSING", 1, "Extracting document information...",
                   "", NoResult))
    /\ \/ /\ store' = [store EXCEPT ![pipe.task_id] =
                Snapshot("PROCESSING", 1, "Extracting document information...",
                         "", NoResult)]
          /\ pipe' = [pipe EXCEPT !.celery_state = "PROCESSING",
                                  !.pc = "extract", !.attempt = 0,
                                  !.events = Append(@, "snapshot")]
       \/ /\ store' = store
          /\ pipe' = [pipe EXCEPT !.celery_state = "PROCESSING",
                                  !.pc = "handler",
                                  !.events = Append(@, "snapshot")]
    /\ UNCHANGED <<poolVars, retryVars, pollVars>>

\* what a failed attempt of a step raised: an error that may go away, or one
\* that will not (malformed input, unsupported format, failed validation);
\* the loops catch Exception and treat both alike
StepErrors == {"transient", "validation"}

\* a failed attempt that is not the last, with the error it caught
Retried(step, ev) ==
    {[Retry(step, ev) EXCEPT !.last_error = k] : k \in StepErrors}

\* run_async_in_new_loop, lines 24-42, and the same finally clause of step 4,
\* lines 838-847, applied to the pipeline record p of a step whose coroutine
\* has run: close_pool(loop_id) is called, an error of it is logged, and the
\* loop is closed.  The coroutine may have registered a pool for the loop
\* (get_pool); when pool.close() raises inside close_pool (database.py, line
\* 92) the del of line 93 is not reached and the pool stays in _pools.
run_async_in_new_loop(p, step) ==
    {[p EXCEPT !.loops_opened = @ + 1,
               !.close_pool_calls = @ + 1,
               !.loops_closed = @ + 1,
               !.registered = IF left THEN @ \cup {step} ELSE @] :
        left \in BOOLEAN}

\* lines 628-634
PipelineStart ==
    /\ pipe.pc = "start"
    /\ pipe' = [pipe EXCEPT !.celery_state = "PROCESSING",
                            !.pc = "extract", !.attempt = 0,
                            !.events = Append(@, "snapshot")]
    /\ SetTaskState(pipe.task_id,
          Snapshot("PROCESSING", 1, "Extracting document information...",
                   "", NoResult))
    /\ UNCHANGED <<poolVars, retryVars, pollVars>>

\* an extraction loop that allows one attempt more
ExtractAttemptOneMore ==
    /\ pipe.pc = "extract"
    /\ \/ \E n \in ContentLengths :
            /\ pipe' = [pipe EXCEPT !.celery_state = "PROCESSING",
                                    !.calls["extract"] = @ + 1,
                                    !.content_len = n,
                                    !.pc = "classify", !.attempt = 0,
                                    !.events = @ \o <<"call_extract", "snapshot">>]
            /\ SetTaskState(pipe.task_id,
                  Snapshot("PROCESSING", 2, "Classifying document...", "",
                           NoResult))
       \/ /\ pipe.attempt <= MAX_RETRIES
          /\ pipe' \in Retried("extract", "call_extract")
          /\ UNCHANGED <<writes, store>>
       \/ /\ pipe.attempt > MAX_RETRIES
          /\ pipe' = [pipe EXCEPT !.calls["extract"] = @ + 1,
                                  !.attempt = @ + 1,
                                  !.exhausted = "extract",
                                  !.pc = "handler",
                                  !.events = Append(@, "call_extract")]
          /\ UNCHANGED <<writes, store>>
    /\ UNCHANGED <<poolVars, retryVars, pollVars>>

\* step 1, lines 636-677: one pass of the extraction loop
ExtractAttempt ==
    /\ pipe.pc = "extract"
    /\ \/ \E n \in ContentLengths :
            /\ pipe' = [pipe EXCEPT !.celery_state = "PROCESSING",
                                    !.calls["extract"] = @ + 1,
                                    !.content_len = n,
                                    !.pc = "classify", !.attempt = 0,
                                    !.events = @ \o <<"call_extract", "snapshot">>]
            /\ SetTaskState(pipe.task_id,
                  Snapshot("PROCESSING", 2, "Classifying document...", "",
                           NoResult))
       \/ /\ pipe.attempt + 1 <= MAX_RETRIES
          /\ pipe' \in Retried("extract", "call_extract")
          /\ UNCHANGED <<writes, store>>
       \/ /\ pipe.attempt + 1 > MAX_RETRIES
          /\ pipe' = [pipe EXCEPT !.calls["extract"] = @ + 1,
                                  !.attempt = @ + 1,
                                  !.exhausted = "extract",
                                  !.pc = "handler",
                                  !.events = Append(@, "call_extract")]
          /\ UNCHANGED <<writes, store>>
    /\ UNCHANGED <<poolVars, retryVars, pollVars>>

\* a pipeline that embeds content of exactly EMBED_MIN_CONTENT characters
ClassifyAttemptEmbedsAtThreshold ==
    /\ pipe.pc = "classify"
    /\ \/ /\ pipe' = [pipe EXCEPT !.celery_state = "PROCESSING",
                                  !.calls["classify"] = @ + 1,
                                  !.pc = IF pipe.content_len >= EMBED_MIN_CONTENT
                                         THEN "embed" ELSE "skip_embed",
                                  !.attempt = 0,
                                  !.events = @ \o <<"call_classify", "snapshot">>]
          /\ SetTaskState(pipe.task_id,
                Snapshot("PROCESSING", 3, "Generating embeddings...", "",
                         NoResult))
       \/ /\ pipe.attempt + 1 <= MAX_RETRIES
          /\ pipe' \in Retried("classify", "call_classify")
          /\ UNCHANGED <<writes, store>>
       \/ /\ pipe.attempt + 1 > MAX_RETRIES
          /\ pipe' = [pipe EXCEPT !.calls["classify"] = @ + 1,
                                  !.attempt = @ + 1,
                                  !.exhausted = "classify",
                                  !.pc = "handler",
                                  !.events = Append(@, "call_classify")]
          /\ UNCHANGED <<writes, store>>
    /\ UNCHANGED <<poolVars, retryVars, pollVars>>

\* the classification loop with the step-1 meta reused for its snapshot
ClassifyAttemptStaleMeta ==
    /\ pipe.pc = "classify"
    /\ \/ /\ pipe' = [pipe EXCEPT !.celery_state = "PROCESSING",
                                  !.calls["classify"] = @ + 1,
                                  !.pc = IF pipe.content_len > EMBED_MIN_CONTENT
                                         THEN "embed" ELSE "skip_embed",
                                  !.attempt = 0,
                                  !.events = @ \o <<"call_classify", "snapshot">>]
          /\ SetTaskState(pipe.task_id,
                Snapshot("PROCESSING", 1, "Extracting document information...",
                         "", NoResult))
       \/ /\ pipe.attempt + 1 <= MAX_RETRIES
          /\ pipe' \in Retried("classify", "call_classify")
          /\ UNCHANGED <<writes, store>>
       \/ /\ pipe.attempt + 1 > MAX_RETRIES
          /\ pipe' = [pipe EXCEPT !.calls["classify"] = @ + 1,
                                  !.attempt = @ + 1,
                                  !.exhausted = "classify",
                                  !.pc = "handler",
                                  !.events = Append(@, "call_classify")]
          /\ UNCHANGED <<writes, store>>
    /\ UNCHANGED <<poolVars, retryVars, pollVars>>

\* step 2, lines 679-730: one pass of the classification loop
ClassifyAttempt ==
    /\ pipe.pc = "classify"
    /\ \/ /\ pipe' = [pipe EXCEPT !.celery_state = "PROCESSING",
                                  !.calls["classify"] = @ + 1,
                                  !.pc = IF pipe.content_len > EMBED_MIN_CONTENT
                                         THEN "embed" ELSE "skip_embed",
                                  !.attempt = 0,
                                  !.events = @ \o <<"call_classify", "snapshot">>]
          /\ SetTaskState(pipe.task_id,
                Snapshot("PROCESSING", 3, "Generating embeddings...", "",
                         NoResult))
       \/ /\ pipe.attempt + 1 <= MAX_RETRIES
          /\ pipe' \in Retried("classify", "call_classify")
          /\ UNCHANGED <<writes, store>>
       \/ /\ pipe.attempt + 1 > MAX_RETRIES
          /\ pipe' = [pipe EXCEPT !.calls["classify"] = @ + 1,
                                  !.attempt = @ + 1,
                                  !.exhausted = "classify",
                                  !.pc = "handler",
                                  !.events = Append(@, "call_classify")]
          /\ UNCHANGED <<writes, store>>
    /\ UNCHANGED <<poolVars, retryVars, pollVars>>

\* the embedding loop treated like a required step: the last failure raises
EmbedAttemptRaising ==
    /\ pipe.pc = "embed"
    /\ \/ pipe' = [pipe EXCEPT !.calls["embed"] = @ + 1,
                               !.embedding_result = "embedding",
                               !.pc = "save", !.attempt = 0,
                               !.events = Append(@, "call_embed")]
       \/ /\ pipe.attempt + 1 <= MAX_RETRIES
          /\ pipe' \in Retried("embed", "call_embed")
       \/ /\ pipe.attempt + 1 > MAX_RETRIES
          /\ pipe' = [pipe EXCEPT !.calls["embed"] = @ + 1,
                                  !.attempt = @ + 1,
                                  !.embedding_result = "None",
                                  !.embed_exhausted = TRUE,
                                  !.pc = "handler",
                                  !.events = Append(@, "call_embed")]
    /\ UNCHANGED <<writes, store, poolVars, retryVars, pollVars>>

\* step 3, lines 732-767: one pass of the embedding loop; the last failure
\* leaves embedding_result None and falls out of the loop
EmbedAttempt ==
    /\ pipe.pc = "embed"
    /\ \/ pipe' \in run_async_in_new_loop(
                      [pipe EXCEPT !.calls["embed"] = @ + 1,
                                   !.embedding_result = "embedding",
                                   !.pc = "save", !.attempt = 0,
                                   !.events = Append(@, "call_embed")],
                      "embed")
       \/ /\ pipe.attempt + 1 <= MAX_RETRIES
          /\ \E p \in Retried("embed", "call_embed") :
                pipe' \in run_async_in_new_loop(p, "embed")
       \/ /\ pipe.attempt + 1 > MAX_RETRIES
          /\ pipe' \in run_async_in_new_loop(
                      [pipe EXCEPT !.calls["embed"] = @ + 1,
                                   !.attempt = @ + 1,
                                   !.embedding_result = "None",
                                   !.embed_exhausted = TRUE,
                                   !.pc = "save",
                                   !.events = Append(@, "call_embed")],
                      "embed")
    /\ UNCHANGED <<writes, store, poolVars, retryVars, pollVars>>

\* lines 768-776: the content is too short for embeddings
SkipEmbed ==
    /\ pipe.pc = "skip_embed"
    /\ pipe' = [pipe EXCEPT !.celery_state = "PROCESSING",
                            !.pc = "save", !.events = Append(@, "snapshot")]
    /\ SetTaskState(pipe.task_id,
          Snapshot("PROCESSING", 3,
                   "Skipping embeddings (insufficient content)...", "",
                   NoResult))
    /\ UNCHANGED <<poolVars, retryVars, pollVars>>

\* lines 778-801
StartSave ==
    /\ pipe.pc = "save"
    /\ pipe' = [pipe EXCEPT !.celery_state = "PROCESSING",
                            !.pc = "persist", !.attempt = 0,
                            !.events = Append(@, "snapshot")]
    /\ SetTaskState(pipe.task_id,
          Snapshot("PROCESSING", 4, "Saving document data...", "", NoResult))
    /\ UNCHANGED <<poolVars, retryVars, pollVars>>

\* step 4, lines 803-856: one pass of the database write loop; leaving the
\* loop runs the finally clause that closes the loop's pool
PersistAttempt ==
    /\ pipe.pc = "persist"
    /\ \/ /\ pipe' \in run_async_in_new_loop(
                   [pipe EXCEPT !.celery_state = "PROCESSING",
                                !.calls["persist"] = @ + 1,
                                !.persisted = TRUE,
                                !.document = "written",
                                !.pc = "finalize", !.attempt = 0,
                                !.events = @ \o <<"call_persist", "close_pool",
                                                  "snapshot">>],
                   "persist")
          /\ SetTaskState(pipe.task_id,
                Snapshot("PROCESSING", 5, "Finalizing...", "", NoResult))
       \/ /\ pipe.attempt + 1 <= MAX_RETRIES
          /\ pipe' \in Retried("persist", "call_persist")
          /\ UNCHANGED <<writes, store>>
       \/ /\ pipe.attempt + 1 > MAX_RETRIES
          /\ pipe' \in run_async_in_new_loop(
                   [pipe EXCEPT !.calls["persist"] = @ + 1,
                                !.attempt = @ + 1,
                                !.exhausted = "persist",
                                !.pc = "handler",
                                !.events = @ \o <<"call_persist", "close_pool">>],
                   "persist")
          /\ UNCHANGED <<writes, store>>
    /\ UNCHANGED <<poolVars, retryVars, pollVars>>

\* a SUCCESS snapshot written without the result object
FinalizeBare ==
    /\ pipe.pc = "finalize"
    /\ pipe' = [pipe EXCEPT !.celery_state = "SUCCESS",
                            !.pc = "returned",
                            !.events = @ \o <<"snapshot", "return">>]
    /\ SetTaskState(pipe.task_id,
          Snapshot("SUCCESS", 7, "Successfully Uploaded", "", NoResult))
    /\ UNCHANGED <<poolVars, retryVars, pollVars>>

\* lines 858-888: the SUCCESS snapshot carries result_data
Finalize ==
    /\ pipe.pc = "finalize"
    /\ pipe' = [pipe EXCEPT !.celery_state = "SUCCESS",
                            !.pc = "returned",
                            !.events = @ \o <<"snapshot", "return">>]
    /\ SetTaskState(pipe.task_id,
          Snapshot("SUCCESS", 7, "Successfully Uploaded", "",
                   [present |-> TRUE, document_id |-> pipe.document_id,
                    embedding |-> pipe.embedding_result,
                    classification |-> "category",
                    token_usage |-> "tokens"]))
    /\ UNCHANGED <<poolVars, retryVars, pollVars>>

\* an except handler out of which a failure of the delete propagates
HandlerDeleteRaising ==
    /\ pipe.pc = "handler"
    /\ \E ok \in BOOLEAN :
        pipe' = [pipe EXCEPT !.pc = IF ok THEN "report" ELSE "raised",
                             !.deletes = @ + 1,
                             !.deleted_id = pipe.document_id,
                             !.document = IF ok THEN "deleted" ELSE @,
                             !.events = IF ok THEN Append(@, "delete")
                                        ELSE @ \o <<"delete", "raise">>]
    /\ UNCHANGED <<writes, store, poolVars, retryVars, pollVars>>

\* the except handler without the call of delete_document_from_db
HandlerDeleteOmitted ==
    /\ pipe.pc = "handler"
    /\ pipe' = [pipe EXCEPT !.pc = "report"]
    /\ UNCHANGED <<writes, store, poolVars, retryVars, pollVars>>

\* lines 889-895 and delete_document_from_db, lines 45-60: the compensating
\* delete; a failure of the delete is logged and swallowed
HandlerDelete ==
    /\ pipe.pc = "handler"
    /\ \E ok \in BOOLEAN :
        pipe' \in run_async_in_new_loop(
                    [pipe EXCEPT !.pc = "report",
                                 !.deletes = @ + 1,
                                 !.deleted_id = pipe.document_id,
                                 !.document = IF ok THEN "deleted" ELSE @,
                                 !.events = Append(@, "delete")],
                    "delete")
    /\ UNCHANGED <<writes, store, poolVars, retryVars, pollVars>>

\* lines 897-904
HandlerReport ==
    /\ pipe.pc = "report"
    /\ pipe' = [pipe EXCEPT !.celery_state = "FAILURE",
                            !.pc = "raised",
                            !.events = @ \o <<"snapshot", "raise">>]
    /\ SetTaskState(pipe.task_id,
          Snapshot("FAILURE", None,
                   "Document processing failed after all retries",
                   "Document processing pipeline failed after all retries",
                   NoResult))
    /\ UNCHANGED <<poolVars, retryVars, pollVars>>

\* self.update_state raises (the result backend cannot be written) at one of
\* its calls inside the try block, lines 629, 672, 721, 771, 790 and 851: the
\* statements before the call have run, and control passes to the except
\* handler of line 889.  At line 898 the call is in the handler and the error
\* leaves the task.
UpdateStateRaises ==
    /\ \/ /\ pipe.pc \in {"start", "skip_embed", "save"}
          /\ pipe' = [pipe EXCEPT !.pc = "handler",
                                  !.events = Append(@, "update_state")]
       \/ /\ pipe.pc = "extract"
          /\ \E n \in ContentLengths :
                pipe' = [pipe EXCEPT !.calls["extract"] = @ + 1,
                                     !.content_len = n,
                                     !.pc = "handler",
                                     !.events = @ \o <<"call_extract",
                                                       "update_state">>]
       \/ /\ pipe.pc = "classify"
          /\ pipe' = [pipe EXCEPT !.calls["classify"] = @ + 1,
                                  !.pc = "handler",
                                  !.events = @ \o <<"call_classify",
                                                    "update_state">>]
       \/ /\ pipe.pc = "persist"
          /\ pipe' \in run_async_in_new_loop(
                   [pipe EXCEPT !.calls["persist"] = @ + 1,
                                !.persisted = TRUE,
                                !.document = "written",
                                !.pc = "handler",
                                !.events = @ \o <<"call_persist", "close_pool",
                                                  "update_state">>],
                   "persist")
       \/ /\ pipe.pc = "report"
          /\ pipe' = [pipe EXCEPT !.celery_state = "FAILURE",
                                  !.pc = "raised",
                                  !.events = @ \o <<"update_state", "raise">>]
    /\ UNCHANGED <<writes, store, poolVars, retryVars, pollVars>>

\* generate_embedding_task, lines 267-316: one execution of the Celery task
\* with self.request.retries = pipe.attempt.  self.retry hands the task back
\* to Celery, which runs it again with retries + 1; at retries >= MAX_RETRIES
\* the document is deleted, FAILURE is stored and the error is raised.
generate_embedding_task ==
    /\ pipe.pc = "embed_task"
    /\ \/ pipe' \in run_async_in_new_loop(
                      [pipe EXCEPT !.calls["embed"] = @ + 1,
                                   !.embedding_result = "embedding",
                                   !.celery_state = "SUCCESS",
                                   !.pc = "returned",
                                   !.events = @ \o <<"call_embed", "return">>],
                      "embed")
       \/ /\ pipe.attempt < MAX_RETRIES
          /\ pipe' \in run_async_in_new_loop(
                      [pipe EXCEPT !.calls["embed"] = @ + 1,
                                   !.attempt = @ + 1,
                                   !.celery_state = "RETRY",
                                   !.events = @ \o <<"call_embed", "retry">>],
                      "embed")
       \/ /\ pipe.attempt >= MAX_RETRIES
          /\ \E ok \in BOOLEAN :
             \E p \in run_async_in_new_loop(
                      [pipe EXCEPT !.calls["embed"] = @ + 1,
                                   !.embed_exhausted = TRUE,
                                   !.events = Append(@, "call_embed")],
                      "embed") :
                pipe' \in run_async_in_new_loop(
                      [p EXCEPT !.deletes = @ + 1,
                                !.deleted_id = pipe.document_id,
                                !.document = IF ok THEN "deleted" ELSE @,
                                !.celery_state = "FAILURE",
                                !.pc = "raised",
                                !.events = @ \o <<"delete", "update_state",
                                                  "raise">>],
                      "delete")
    /\ UNCHANGED <<writes, store, poolVars, retryVars, pollVars>>

\* a worker that is handed process_document_pipeline or generate_embedding_task
InitWorker ==
    /\ \E j \in Jobs, d \in Jobs, entry \in {"start", "embed_task"} :
        pipe = [task_id |-> j, document_id |-> d, deleted_id |-> None,
                pc |-> entry, attempt |-> 0, content_len |-> 0,
                calls |-> NoCalls, sleeps |-> <<>>, events |-> <<>>,
                embedding_result |-> "None", exhausted |-> "none",
                embed_exhausted |-> FALSE, persisted |-> FALSE,
                deletes |-> 0, document |-> "present",
                last_error |-> "none", celery_state |-> "PENDING",
                registered |-> {}, loops_opened |-> 0,
                close_pool_calls |-> 0, loops_closed |-> 0]
    /\ writes = <<>>

(***************************************************************************)
(* utils/websocket_handler.py: TaskPoller                                  *)
(*                                                                         *)
(* One connection: the polling loop, the poll_single_task coroutines it    *)
(* gathers and the message handler task run on one event loop, so each     *)
(* runs atomically between two await points.  Workers and the TTL change   *)
(* the Redis entries underneath; time.time() is an integer clock.          *)
(***************************************************************************)
HEARTBEAT_INTERVAL == 3
POLL_INTERVAL == 1

EndTime == StartTime + TimeHorizon

\* the task ids the client asks about
Tasks == 1..NumTasks

\* the info dict of a poll: meta of the Redis entry, or AsyncResult.info
NoInfo == [step |-> None, message |-> "", error |-> "", result |-> NoResult]

InfoOf(snap) == [step |-> snap.step, message |-> snap.message,
                 error |-> snap.error, result |-> NoResult]

\* last_states.get(task_id) of a task without an entry
NoKey == [task_id |-> None, state |-> "", step |-> None, message |-> ""]

\* _should_send_update, lines 179-181: f"{task_id}_{state}_{step}_{message}"
StateKey(j, state, info) ==
    [task_id |-> j, state |-> state, step |-> info.step,
     message |-> info.message]

\* a JSON message to the client; a key the payload lacks is None or ""
NoMessage == [task_id |-> None, message |-> "", step |-> None, error |-> "",
              state |-> "", result |-> NoResult, has_result |-> FALSE,
              document |-> None]

\* the snapshots a worker leaves in Redis for the polled tasks
PollSnapshots(j) ==
    { Snapshot("PROCESSING", 3, "Generating embeddings...", "", NoResult),
      Snapshot("PROCESSING", 4, "Saving document data...", "", NoResult),
      Snapshot("SUCCESS", 7, "Successfully Uploaded", "",
               [present |-> TRUE, document_id |-> j, embedding |-> "None",
                classification |-> "category", token_usage |-> "tokens"]),
      Snapshot("FAILURE", None,
               "Document processing failed after all retries",
               "Document processing pipeline failed after all retries",
               NoResult) }

\* what a read of AsyncResult(task_id) can report: the state and, for SUCCESS,
\* the returned result; "unreachable" is a result backend whose read raises
BackendValues(j) ==
    { Snapshot("PENDING", None, "", "", NoResult),
      Snapshot("SUCCESS", None, "", "",
               [present |-> TRUE, document_id |-> j, embedding |-> "None",
                classification |-> "category", token_usage |-> "tokens"]),
      Snapshot("REVOKED", None, "", "", NoResult),
      Snapshot("unreachable", None, "", "", NoResult) }

IdlePoll == [pc |-> "idle", state |-> "", info |-> NoInfo,
             from_store |-> FALSE, read |-> "none", fresh |-> FALSE,
             same_key |-> FALSE, elapsed |-> 0, should_send |-> FALSE, payload |-> NoMessage,
             reread |-> NoSnapshot, outcome |-> "none", delivered |-> FALSE,
             generic |-> FALSE, ret |-> FALSE, exc |-> "",
             error_payload |-> NoMessage]

\* websocket_tasks is not running
IdleConn == [pc |-> "off", token |-> "none", secret |-> TRUE,
             verdict |-> "none", close_code |-> None, handshake |-> FALSE]

\* no connection
IdlePoller ==
    /\ poller = [subscribed_tasks |-> {}, last_states |-> [j \in Tasks |-> NoKey],
                 last_update_times |-> [j \in Tasks |-> 0],
                 connection_open |-> FALSE, client_state |-> "DISCONNECTED",
                 loop_pc |-> "off", handler_pc |-> "off",
                 next_poll_time |-> 0, task_list |-> {}]
    /\ poll = [j \in Tasks |-> IdlePoll]
    /\ now = StartTime
    /\ peer = "gone"
    /\ conn = IdleConn

\* TaskPoller.__init__, lines 23-29, and run_polling_loop, lines 261-264; the
\* Redis entries and the result backend are in any state when the client
\* connects
InitPoller ==
    /\ poller = [subscribed_tasks |-> {}, last_states |-> [j \in Tasks |-> NoKey],
                 last_update_times |-> [j \in Tasks |-> 0],
                 connection_open |-> TRUE, client_state |-> "CONNECTED",
                 loop_pc |-> "top", handler_pc |-> "receive",
                 next_poll_time |-> StartTime, task_list |-> {}]
    /\ poll = [j \in Tasks |-> IdlePoll]
    /\ now = StartTime
    /\ peer = "up"
    /\ conn = [IdleConn EXCEPT !.pc = "polling", !.token = "valid",
                               !.verdict = "ok", !.handshake = TRUE]
    /\ store \in [Jobs -> UNION {PollSnapshots(j) : j \in Jobs} \cup {NoSnapshot}]
    /\ \A j \in Tasks : store[j] \in PollSnapshots(j) \cup {NoSnapshot}
    /\ \A j \in Jobs \ Tasks : store[j] = NoSnapshot

\* is_connection_open, lines 31-38
is_connection_open ==
    poller.connection_open /\ poller.client_state = "CONNECTED"

TerminalStates == {"SUCCESS", "FAILURE", "REVOKED"}

\* a worker's set_task_state_in_redis reaches Redis
StoreWrite(j, snap) ==
    /\ poller.loop_pc \notin {"off", "closed"}
    /\ snap # store[j]
    /\ store' = [store EXCEPT ![j] = snap]
    /\ UNCHANGED <<conn, poller, poll, now, peer, poolVars,
                   retryVars, pipeVars>>

\* the entry's TTL of 3600 seconds runs out (redis_utils.py line 106)
StoreExpire(j) ==
    /\ poller.loop_pc \notin {"off", "closed"}
    /\ store[j] # NoSnapshot
    /\ store' = [store EXCEPT ![j] = NoSnapshot]
    /\ UNCHANGED <<conn, poller, poll, now, peer, poolVars,
                   retryVars, pipeVars>>

\* a second of time.time() passes
ClockTick ==
    /\ poller.loop_pc \notin {"off", "closed"}
    /\ now < EndTime
    /\ now' = now + 1
    /\ UNCHANGED <<conn, poller, poll, peer, storeVars, poolVars,
                   retryVars, pipeVars>>

\* the client goes away; the server has not read the disconnect yet
PeerCloses ==
    /\ peer = "up"
    /\ peer' = "gone"
    /\ UNCHANGED <<conn, poller, poll, now, storeVars, poolVars,
                   retryVars, pipeVars>>

\* the action of a message; "absent" is a message without the key
Actions == {"subscribe", "unsubscribe", "update", "ping", "absent"}

\* handle_message in which update replaces the subscribed set
handle_message_replacing(data_action, task_ids) ==
    LET action == IF data_action = "absent" THEN "subscribe" ELSE data_action
    IN  CASE action = "subscribe" ->
               [poller EXCEPT !.subscribed_tasks = @ \cup task_ids]
          [] action = "update" ->
               [poller EXCEPT !.subscribed_tasks = task_ids]
          [] action = "unsubscribe" ->
               [poller EXCEPT
                  !.subscribed_tasks = @ \ task_ids,
                  !.last_states =
                     [j \in Tasks |-> IF j \in task_ids THEN NoKey ELSE @[j]],
                  !.last_update_times =
                     [j \in Tasks |-> IF j \in task_ids THEN 0 ELSE @[j]]]
          [] OTHER -> poller

\* handle_message, lines 53-69: the TaskPoller after the message
handle_message(data_action, task_ids) ==
    LET action == IF data_action = "absent" THEN "subscribe" ELSE data_action
    IN  CASE action \in {"subscribe", "update"} ->
               [poller EXCEPT !.subscribed_tasks = @ \cup task_ids]
          [] action = "unsubscribe" ->
               [poller EXCEPT
                  !.subscribed_tasks = @ \ task_ids,
                  !.last_states =
                     [j \in Tasks |-> IF j \in task_ids THEN NoKey ELSE @[j]],
                  !.last_update_times =
                     [j \in Tasks |-> IF j \in task_ids THEN 0 ELSE @[j]]]
          [] OTHER -> poller

\* message_handler, lines 73-76, and handle_message, lines 53-69: one message
\* of the client is received and handled
HandleMessage(action, task_ids) ==
    /\ poller.handler_pc = "receive"
    /\ poller.connection_open
    /\ peer = "up"
    /\ poller' = handle_message(action, task_ids)
    /\ poller' # poller
    /\ UNCHANGED <<conn, poll, now, peer, storeVars, poolVars,
                   retryVars, pipeVars>>

\* message_handler, lines 77-80: receive_json raises WebSocketDisconnect
HandlerDisconnect ==
    /\ poller.handler_pc = "receive"
    /\ peer = "gone"
    /\ poller' = [poller EXCEPT !.connection_open = FALSE,
                                !.client_state = "DISCONNECTED",
                                !.handler_pc = "done"]
    /\ UNCHANGED <<conn, poll, now, peer, storeVars, poolVars,
                   retryVars, pipeVars>>

\* run_polling_loop, lines 286-295, with the subscriptions S left by the tick
AfterTick(S, ls, lt) ==
    LET next == poller.next_poll_time + POLL_INTERVAL
        sleep_duration == IF next - now > 0 THEN next - now ELSE 0
    IN  [poller EXCEPT !.subscribed_tasks = S,
                       !.last_states = ls,
                       !.last_update_times = lt,
                       !.task_list = {},
                       !.next_poll_time =
                           IF sleep_duration > 0 THEN next ELSE now,
                       !.loop_pc =
                           IF sleep_duration > 0 THEN "sleep" ELSE "top"]

\* run_polling_loop, lines 265-276: the top of the loop; with subscriptions it
\* starts one poll_single_task per task, each of which runs to its Redis read
\* (lines 104-109 and 157)
LoopTop ==
    /\ poller.loop_pc = "top"
    /\ IF ~is_connection_open
       THEN \* lines 310-318
            /\ poller' = [poller EXCEPT !.connection_open = FALSE,
                                        !.loop_pc = "closed",
                                        !.handler_pc = "done"]
            /\ poll' = poll
       ELSE IF poller.subscribed_tasks = {}
       THEN /\ poller' = AfterTick(poller.subscribed_tasks, poller.last_states,
                                   poller.last_update_times)
            /\ poll' = poll
       ELSE /\ poller' = [poller EXCEPT !.loop_pc = "gather",
                                        !.task_list = poller.subscribed_tasks]
            /\ poll' = [j \in Tasks |->
                          IF j \in poller.subscribed_tasks
                          THEN [IdlePoll EXCEPT !.pc = "get_state"]
                          ELSE IdlePoll]
    /\ UNCHANGED <<conn, now, peer, storeVars, poolVars, retryVars,
                   pipeVars>>

\* asyncio.sleep(sleep_duration) of line 292 returns
LoopWake ==
    /\ poller.loop_pc = "sleep"
    /\ now >= poller.next_poll_time
    /\ poller' = [poller EXCEPT !.loop_pc = "top"]
    /\ UNCHANGED <<conn, poll, now, peer, storeVars, poolVars,
                   retryVars, pipeVars>>

\* the finally clause without the cancellation of the message handler
LoopCancelledHandlerLeft ==
    /\ poller.loop_pc \in {"gather", "sleep"}
    /\ poller' = [poller EXCEPT !.connection_open = FALSE,
                                !.loop_pc = "closed",
                                !.task_list = {}]
    /\ poll' = [j \in Tasks |-> IdlePoll]
    /\ UNCHANGED <<conn, now, peer, storeVars, poolVars, retryVars, pipeVars>>

\* run_polling_loop, lines 297-318: the loop is cancelled, or an exception
\* escapes it, while it is suspended in gather or sleep; the handlers and
\* the finally clause close the connection flag and cancel the message
\* handler, and the cancelled gather cancels its polls
LoopCancelled ==
    /\ poller.loop_pc \in {"gather", "sleep"}
    /\ poller' = [poller EXCEPT !.connection_open = FALSE,
                                !.loop_pc = "closed",
                                !.handler_pc = "done",
                                !.task_list = {}]
    /\ poll' = [j \in Tasks |-> IdlePoll]
    /\ UNCHANGED <<conn, now, peer, storeVars, poolVars, retryVars, pipeVars>>

\* _should_send_update with a heartbeat that needs more than the interval
should_send_update_late(j, state, info) ==
    \/ poller.last_states[j] # StateKey(j, state, info)
    \/ /\ state = "PROCESSING"
       /\ now - poller.last_update_times[j] > HEARTBEAT_INTERVAL

\* _should_send_update, lines 183-191
should_send_update(j, state, info) ==
    \/ poller.last_states[j] # StateKey(j, state, info)
    \/ /\ state = "PROCESSING"
       /\ now - poller.last_update_times[j] >= HEARTBEAT_INTERVAL

\* _build_payload, lines 201-220, for the states that need no further read
build_payload(j, state, info) ==
    CASE state = "PENDING" ->
           [NoMessage EXCEPT !.task_id = j, !.message = "step", !.step = 1]
      [] state = "PROCESSING" ->
           [NoMessage EXCEPT !.task_id = j, !.message = "step",
                             !.step = IF info.step = None THEN 1 ELSE info.step]
      [] state = "FAILURE" ->
           [NoMessage EXCEPT !.task_id = j, !.message = "failure",
                             !.error = IF info.error # "" THEN info.error
                                       ELSE IF info.message # "" THEN info.message
                                       ELSE "Task failed"]
      [] state = "REVOKED" ->
           [NoMessage EXCEPT !.task_id = j, !.message = "failure",
                             !.error = "Task was cancelled"]
      [] OTHER -> [NoMessage EXCEPT !.task_id = j]

\* _build_success_payload taking the result from Celery alone
build_success_payload_celery(j, info, redis_state, celery) ==
    LET result_data ==
          IF celery.state = "unreachable" THEN NoResult
          ELSE IF celery.state = "SUCCESS" THEN celery.result
          ELSE IF info.result.present THEN info.result
          ELSE [present |-> info # NoInfo, document_id |-> None,
                embedding |-> "None", classification |-> "None",
                token_usage |-> "None"]
    IN  [NoMessage EXCEPT !.task_id = j, !.message = "success", !.step = 7,
                          !.has_result = TRUE,
                          !.result = result_data,
                          !.document = result_data.document_id]

\* _build_success_payload, lines 230-250, given the Redis entry it read and
\* what AsyncResult reports
build_success_payload(j, info, redis_state, celery) ==
    LET result_data ==
          IF redis_state.state # "absent" /\ redis_state.result.present
          THEN redis_state.result
          ELSE IF celery.state = "unreachable" THEN NoResult
          ELSE IF celery.state = "SUCCESS" THEN celery.result
          ELSE IF info.result.present THEN info.result
          ELSE [present |-> info # NoInfo, document_id |-> None,
                embedding |-> "None", classification |-> "None",
                token_usage |-> "None"]
    IN  [NoMessage EXCEPT !.task_id = j, !.message = "success", !.step = 7,
                          !.has_result = TRUE,
                          !.result = result_data,
                          !.document = result_data.document_id]

\* str(e) of the exceptions a poll can catch at line 140: the text the
\* library that raised put into the exception
BackendErrorText == "Error 111 connecting to redis:6379. Connection refused."

SendErrorText == "Object of type datetime is not JSON serializable"

\* the generic failure message of lines 144-149; e is str(e) of line 147
error_message(j, e) ==
    [NoMessage EXCEPT !.task_id = j, !.state = "FAILURE",
                      !.error = e, !.message = "failure"]

\* how a GET of the entry of a task can end
ReadOutcomes == {"ok", "fails"}

\* get_task_state_from_redis, lines 60-76: the entry, or None when there is
\* none; an exception of the client or of the read is logged and None is
\* returned as well (lines 74-76), nothing is raised
get_task_state_from_redis(j, outcome) ==
    [value |-> IF outcome = "ok" THEN store[j] ELSE NoSnapshot,
     got |-> IF outcome = "fails" THEN "failed_as_absent"
             ELSE IF store[j] = NoSnapshot THEN "absent" ELSE "entry",
     raises |-> FALSE]

\* the values get_task_state_from_redis can return for the entry of j
RedisReads(j) == {get_task_state_from_redis(j, o) : o \in ReadOutcomes}

\* _get_task_state, lines 155-175, given what get_task_state_from_redis
\* returned and what AsyncResult reports: redis_state.get("state", "PENDING")
\* and the meta of a truthy entry, the state and info of Celery otherwise; an
\* entry without the key "state" has state "missing" here
get_task_state(redis_state, celery) ==
    IF redis_state.state # "absent"
    THEN [state |-> IF redis_state.state = "missing" THEN "PENDING"
                    ELSE redis_state.state,
          info |-> InfoOf(redis_state),
          from_store |-> TRUE]
    ELSE [state |-> celery.state,
          info |-> IF celery.state = "SUCCESS"
                   THEN [NoInfo EXCEPT !.result = celery.result]
                   ELSE NoInfo,
          from_store |-> FALSE]

\* poll_single_task, lines 109-122: the Redis read of _get_task_state returns;
\* the poll falls back to Celery, decides whether to send, records the key and
\* goes on to the next await
PollGotState(j) ==
    /\ poll[j].pc = "get_state"
    /\ \E read \in RedisReads(j), celery \in BackendValues(j) :
        LET redis_state == read.value
            got == get_task_state(redis_state, celery)
            from_store == got.from_store
            raises == read.raises
                      \/ (~from_store /\ celery.state = "unreachable")
            state == got.state
            info == got.info
            send == should_send_update(j, state, info)
            seen == [poll[j] EXCEPT !.state = state, !.info = info,
                                    !.from_store = from_store,
                                    !.read = read.got,
                                    !.fresh = (poller.last_states[j] = NoKey),
                                    !.same_key = (poller.last_states[j] =
                                                  StateKey(j, state, info)),
                                    !.elapsed =
                                        now - poller.last_update_times[j],
                                    !.should_send = send]
        IN  IF raises
            THEN \* lines 140-153
                 /\ poll' = [poll EXCEPT ![j] =
                               [@ EXCEPT !.state = "unreachable",
                                         !.read = IF read.raises THEN "raised"
                                                  ELSE read.got,
                                         !.outcome = "raised",
                                         !.exc = BackendErrorText,
                                         !.pc = IF is_connection_open
                                                THEN "send_error"
                                                ELSE "done"]]
                 /\ poller' = poller
            ELSE IF ~send
            THEN /\ poll' = [poll EXCEPT ![j] = [seen EXCEPT !.pc = "done"]]
                 /\ poller' = poller
            ELSE /\ poller' = [poller EXCEPT
                                 !.last_states[j] = StateKey(j, state, info),
                                 !.last_update_times[j] = now]
                 /\ poll' = [poll EXCEPT ![j] =
                               IF state = "SUCCESS"
                               THEN [seen EXCEPT !.pc = "build"]
                               ELSE [seen EXCEPT
                                       !.pc = IF is_connection_open
                                              THEN "send" ELSE "done",
                                       !.payload = build_payload(j, state, info)]]
    /\ UNCHANGED <<conn, now, peer, storeVars, poolVars, retryVars,
                   pipeVars>>

\* lines 116-122 of a SUCCESS poll: the Redis read of _build_success_payload
\* returns
PollBuilt(j) ==
    /\ poll[j].pc = "build"
    /\ \E read \in RedisReads(j), celery \in BackendValues(j) :
        LET redis_state == read.value
        IN
        poll' = [poll EXCEPT ![j] =
                   [@ EXCEPT !.reread = redis_state,
                             !.payload =
                                build_success_payload(j, poll[j].info,
                                                      redis_state, celery),
                             !.pc = IF is_connection_open THEN "send" ELSE "done"]]
    /\ UNCHANGED <<conn, poller, now, peer, storeVars, poolVars,
                   retryVars, pipeVars>>

\* what send_json can do: deliver, raise because the connection is closed, or
\* raise something else while the client is still there
SendOutcomes == IF peer = "up" THEN {"ok", "runtime_error", "error"}
                ELSE {"closed"}

\* a poll that deletes the Redis entry once its terminal payload is delivered
PollSentConsuming(j) ==
    /\ poll[j].pc = "send"
    /\ \E outcome \in SendOutcomes :
        /\ poll' = [poll EXCEPT ![j] =
              [@ EXCEPT !.outcome = outcome,
                        !.delivered = (outcome = "ok"),
                        !.ret = (outcome = "ok" /\ poll[j].state \in TerminalStates),
                        !.exc = IF outcome = "error" THEN SendErrorText
                                ELSE "",
                        !.pc = IF outcome = "error" /\ is_connection_open
                               THEN "send_error" ELSE "done"]]
        /\ store' = IF outcome = "ok" /\ poll[j].state \in TerminalStates
                    THEN [store EXCEPT ![j] = NoSnapshot]
                    ELSE store
    /\ UNCHANGED <<conn, poller, now, peer, poolVars, retryVars, pipeVars>>

\* lines 122-153: send_json of the payload returns or raises
PollSent(j) ==
    /\ poll[j].pc = "send"
    /\ \E outcome \in SendOutcomes :
        poll' = [poll EXCEPT ![j] =
              [@ EXCEPT !.outcome = outcome,
                        !.delivered = (outcome = "ok"),
                        !.ret = (outcome = "ok" /\ poll[j].state \in TerminalStates),
                        !.exc = IF outcome = "error" THEN SendErrorText
                                ELSE "",
                        !.pc = IF outcome = "error" /\ is_connection_open
                               THEN "send_error" ELSE "done"]]
    /\ UNCHANGED <<conn, poller, now, peer, storeVars, poolVars, retryVars,
                   pipeVars>>

\* lines 142-153: send_json of the generic failure message returns or raises
PollErrorSent(j) ==
    /\ poll[j].pc = "send_error"
    /\ \E outcome \in SendOutcomes :
        poll' = [poll EXCEPT ![j] =
                   [@ EXCEPT !.pc = "done", !.ret = FALSE,
                             !.error_payload = error_message(j, poll[j].exc),
                             !.generic = (outcome = "ok")]]
    /\ UNCHANGED <<conn, poller, now, peer, storeVars, poolVars, retryVars,
                   pipeVars>>

\* remove_task, lines 252-257, for every task of D
remove_tasks(D) ==
    [subscribed_tasks |-> poller.subscribed_tasks \ D,
     last_states |-> [j \in Tasks |-> IF j \in D THEN NoKey
                                     ELSE poller.last_states[j]],
     last_update_times |-> [j \in Tasks |-> IF j \in D THEN 0
                                           ELSE poller.last_update_times[j]]]

\* run_polling_loop, lines 273-295: gather returns; the tasks whose poll
\* returned True are removed and the loop sleeps to the next tick
LoopGathered ==
    /\ poller.loop_pc = "gather"
    /\ \A j \in poller.task_list : poll[j].pc = "done"
    /\ LET r == remove_tasks({j \in poller.task_list : poll[j].ret})
       IN  poller' = AfterTick(r.subscribed_tasks, r.last_states,
                               r.last_update_times)
    /\ poll' = [j \in Tasks |-> IdlePoll]
    /\ UNCHANGED <<conn, now, peer, storeVars, poolVars, retryVars,
                   pipeVars>>

(***************************************************************************)
(* Specifications                                                          *)
(***************************************************************************)
NextGetPool ==
    \/ \E t \in Callers, l \in Loops : GetPoolStart(t, l)
    \/ \E t \in Callers : GetPoolAcquired(t)
    \/ \E t \in Callers : GetPoolCreated(t)

NextPool ==
    \/ \E t \in Callers, l \in Loops : GetPoolStart(t, l)
    \/ \E t \in Callers : GetPoolAcquired(t)
    \/ \E t \in Callers : GetPoolCreated(t)
    \/ \E t \in Callers, l \in Loops : ClosePoolStart(t, l)
    \/ \E t \in Callers : CloseAllStart(t)
    \/ \E t \in Callers : ClosePoolClosed(t)

NextRetry ==
    \/ sync_wrapper_call
    \/ sync_wrapper_wake
    \/ async_wrapper_call
    \/ async_wrapper_wake

\* racing get_pool callers only
InitGetPoolSpec ==
    InitPool /\ IdleRetry /\ IdlePipe /\ IdleStore /\ IdlePoller
SpecGetPool == InitGetPoolSpec /\ [][NextGetPool]_vars
\* get_pool, close_pool and close_all_pools callers
SpecPool == InitGetPoolSpec /\ [][NextPool]_vars
\* one call through retry_with_backoff
InitRetrySpec ==
    InitRetry /\ IdlePool /\ IdlePipe /\ IdleStore /\ IdlePoller
SpecRetry == InitRetrySpec /\ [][NextRetry]_vars

NextPipeline ==
    \/ PipelineStart
    \/ ExtractAttempt
    \/ ClassifyAttempt
    \/ EmbedAttempt
    \/ SkipEmbed
    \/ StartSave
    \/ PersistAttempt
    \/ Finalize
    \/ HandlerDelete
    \/ HandlerReport

\* one run of process_document_pipeline
InitPipelineSpec ==
    InitPipe /\ IdleStore /\ IdlePool /\ IdleRetry /\ IdlePoller
SpecPipeline == InitPipelineSpec /\ [][NextPipeline]_vars
\* the run is one synchronous function call in a worker: every statement it
\* reaches is executed, and every call and every sleep returns or raises
SpecPipelineFair ==
    InitPipelineSpec /\ [][NextPipeline]_vars /\ WF_vars(NextPipeline)

NextWorker ==
    \/ NextPipeline
    \/ UpdateStateRaises
    \/ generate_embedding_task

\* one task run by a Celery worker, with a result backend that may fail
InitWorkerSpec ==
    InitWorker /\ IdleStore /\ IdlePool /\ IdleRetry /\ IdlePoller
SpecWorker == InitWorkerSpec /\ [][NextWorker]_vars

NextPoller ==
    \/ \E a \in Actions, ids \in SUBSET Tasks : HandleMessage(a, ids)
    \/ HandlerDisconnect
    \/ PeerCloses
    \/ ClockTick
    \/ \E j \in Tasks : \E snap \in PollSnapshots(j) : StoreWrite(j, snap)
    \/ \E j \in Tasks : StoreExpire(j)
    \/ LoopTop
    \/ LoopWake
    \/ LoopCancelled
    \/ \E j \in Tasks : PollGotState(j)
    \/ \E j \in Tasks : PollBuilt(j)
    \/ \E j \in Tasks : PollSent(j)
    \/ \E j \in Tasks : PollErrorSent(j)
    \/ LoopGathered

\* one WebSocket connection served by a TaskPoller
InitPollerSpec == InitPoller /\ IdlePool /\ IdleRetry /\ IdlePipe
SpecPoller == InitPollerSpec /\ [][NextPoller]_vars

(***************************************************************************)
(* server.py: the /ws/tasks endpoint, and utils/auth.py                    *)
(***************************************************************************)

\* the close codes of lines 543 and 550
POLICY_VIOLATION == 1008

INTERNAL_ERROR == 1011

\* the token of the query string: signed with the secret and in date, signed
\* and out of date, or anything else
Tokens == {"valid", "expired", "invalid"}

\* verify_jwt_token, auth.py lines 12-46: what it raises, or the payload;
\* key_error is jwt.decode raising an error that is not an
\* InvalidTokenError, which no except clause of the function catches
verify_jwt_token(token, secret, key_error) ==
    IF ~secret
    THEN [raises |-> "HTTPException", status_code |-> 500,
          detail |-> "Server configuration error"]
    ELSE IF key_error
    THEN [raises |-> "Exception", status_code |-> None, detail |-> "exception"]
    ELSE IF token = "expired"
    THEN [raises |-> "HTTPException", status_code |-> 401,
          detail |-> "Token expired"]
    ELSE IF token = "invalid"
    THEN [raises |-> "HTTPException", status_code |-> 401,
          detail |-> "Invalid token"]
    ELSE [raises |-> "none", status_code |-> None, detail |-> "ok"]

\* a client connects to /ws/tasks with some token; the Redis entries are in
\* any state
InitConnect ==
    /\ \E token \in Tokens, secret \in BOOLEAN :
          conn = [IdleConn EXCEPT !.pc = "verify", !.token = token,
                                  !.secret = secret]
    /\ poller = [subscribed_tasks |-> {}, last_states |-> [j \in Tasks |-> NoKey],
                 last_update_times |-> [j \in Tasks |-> 0],
                 connection_open |-> FALSE, client_state |-> "CONNECTING",
                 loop_pc |-> "off", handler_pc |-> "off",
                 next_poll_time |-> 0, task_list |-> {}]
    /\ poll = [j \in Tasks |-> IdlePoll]
    /\ now = StartTime
    /\ peer = "up"
    /\ store \in [Jobs -> UNION {PollSnapshots(j) : j \in Jobs} \cup {NoSnapshot}]
    /\ \A j \in Tasks : store[j] \in PollSnapshots(j) \cup {NoSnapshot}
    /\ \A j \in Jobs \ Tasks : store[j] = NoSnapshot

\* an endpoint that lets a token through whose signature is good and whose
\* date has passed
AuthenticateExpiredPasses ==
    /\ conn.pc = "verify"
    /\ \E key_error \in BOOLEAN :
        LET r == verify_jwt_token(conn.token, conn.secret, key_error)
        IN  conn' =
              IF r.raises = "HTTPException" /\ r.detail # "Token expired"
              THEN [conn EXCEPT !.pc = "close", !.verdict = r.detail,
                                !.close_code = POLICY_VIOLATION]
              ELSE IF r.raises = "Exception"
              THEN [conn EXCEPT !.pc = "close", !.verdict = r.detail,
                                !.close_code = INTERNAL_ERROR]
              ELSE [conn EXCEPT !.pc = "accept", !.verdict = r.detail]
    /\ UNCHANGED <<poller, poll, now, peer, storeVars, poolVars, retryVars,
                   pipeVars>>

\* websocket_tasks, lines 536-554: the token is verified and the endpoint
\* reaches its first await, the close of a rejected connection or the accept
Authenticate ==
    /\ conn.pc = "verify"
    /\ \E key_error \in BOOLEAN :
        LET r == verify_jwt_token(conn.token, conn.secret, key_error)
        IN  conn' =
              IF r.raises = "HTTPException"
              THEN [conn EXCEPT !.pc = "close", !.verdict = r.detail,
                                !.close_code = POLICY_VIOLATION]
              ELSE IF r.raises = "Exception"
              THEN [conn EXCEPT !.pc = "close", !.verdict = r.detail,
                                !.close_code = INTERNAL_ERROR]
              ELSE [conn EXCEPT !.pc = "accept", !.verdict = r.detail]
    /\ UNCHANGED <<poller, poll, now, peer, storeVars, poolVars, retryVars,
                   pipeVars>>

\* what an await on the socket can do before the polling starts
SocketOutcomes == IF peer = "up" THEN {"ok", "raises"} ELSE {"raises"}

\* lines 542-554: websocket.close returns or raises; the endpoint returns
CloseReturned ==
    /\ conn.pc = "close"
    /\ \E outcome \in SocketOutcomes : conn' = [conn EXCEPT !.pc = "closed"]
    /\ UNCHANGED <<poller, poll, now, peer, storeVars, poolVars, retryVars,
                   pipeVars>>

\* lines 557-565: websocket.accept returns and the TaskPoller is
\* constructed, or it raises and the endpoint returns
Accepted ==
    /\ conn.pc = "accept"
    /\ \E outcome \in SocketOutcomes :
        IF outcome = "ok"
        THEN /\ conn' = [conn EXCEPT !.pc = "handshake"]
             /\ poller' = [poller EXCEPT !.connection_open = TRUE,
                                         !.client_state = "CONNECTED"]
        ELSE /\ conn' = [conn EXCEPT !.pc = "closed"]
             /\ poller' = poller
    /\ UNCHANGED <<poll, now, peer, storeVars, poolVars, retryVars, pipeVars>>

\* lines 565-568 and send_initial_message, websocket_handler.py lines 40-51:
\* the "connected" message is sent and run_polling_loop starts (lines
\* 261-264), or the send raises and the endpoint returns
InitialMessageSent ==
    /\ conn.pc = "handshake"
    /\ \E outcome \in SocketOutcomes :
        IF outcome = "ok"
        THEN /\ conn' = [conn EXCEPT !.pc = "polling", !.handshake = TRUE]
             /\ poller' = [poller EXCEPT !.loop_pc = "top",
                                         !.handler_pc = "receive",
                                         !.next_poll_time = now]
        ELSE /\ conn' = [conn EXCEPT !.pc = "closed"]
             /\ poller' = poller
    /\ UNCHANGED <<poll, now, peer, storeVars, poolVars, retryVars, pipeVars>>

NextConnect ==
    \/ Authenticate
    \/ CloseReturned
    \/ Accepted
    \/ InitialMessageSent
    \/ NextPoller

\* one client connecting to /ws/tasks and being served
InitConnectSpec == InitConnect /\ IdlePool /\ IdleRetry /\ IdlePipe
SpecConnect == InitConnectSpec /\ [][NextConnect]_vars

(***************************************************************************)
(* Properties                                                              *)
(***************************************************************************)
Constructed(l) == {p \in Callers : poolState[p] # "unborn" /\ poolLoop[p] = l}
LivePools(l) == {p \in Callers : poolState[p] = "open" /\ poolLoop[p] = l}
Getters(l) == {t \in Callers : task[t].op = "get_pool" /\ task[t].loop = l}

\* C1: when callers race on get_pool for one loop id that has no pool, at most
\* one pool is ever constructed for it, every caller that returns receives
\* that same pool, and when all of them have returned without an error
\* asyncpg.create_pool was invoked exactly once.
C1_SingleConstruction ==
    \A l \in Loops :
        /\ Cardinality(Constructed(l)) <= 1
        /\ \A t1, t2 \in Getters(l) :
              (task[t1].ret # None /\ task[t2].ret # None)
                  => task[t1].ret = task[t2].ret
        /\ ( /\ Getters(l) # {}
             /\ \A t \in Getters(l) :
                   task[t].pc = "done" /\ task[t].err = "none" )
               => /\ nCreate[l] = 1
                  /\ \A t \in Getters(l) : task[t].ret = pools[l]

C1_Witness ==
    \E l \in Loops :
        /\ Getters(l) = Callers
        /\ \A t \in Callers : task[t].pc = "done" /\ task[t].ret = pools[l]
        /\ pools[l] # None
        /\ nCreate[l] = 1
        /\ Cardinality({t \in Callers : task[t].waited}) >= 2

\* C2: under any interleaving of get_pool, close_pool and close_all_pools, at
\* most one live (constructed, not closing or closed) pool exists per loop id.
C2_AtMostOneLivePool ==
    \A l \in Loops : Cardinality(LivePools(l)) <= 1

\* C3: an operation that fails on every call with a retryable error is called
\* max_retries + 1 times (4 times for max_retries = 3), max_retries sleeps
\* happen, and the error raised is the one of the last call.
C3_ExhaustedRetries ==
    (retry.pc = "raised" /\ retry_on(retry.raised))
        => /\ retry.calls = retry.max_retries + 1
           /\ Len(retry.sleeps) = retry.max_retries
           /\ retry.raised.id = retry.calls
           /\ retry.raised = retry.last_exception
           /\ (retry.max_retries = 3 => retry.calls = 4)

C3_Witness ==
    /\ retry.pc = "raised"
    /\ retry.retry_on = "always"
    /\ retry.max_retries = 3
    /\ retry.calls = 4
    /\ Len(retry.sleeps) = 3

\* C4: an error for which retry_on is false is raised at once: the failing
\* call is the last one, no sleep follows it, the error raised is that very
\* error, and with an always-false retry_on the operation is called once and
\* nothing is slept, whatever max_retries is.
C4_NonRetryableImmediate ==
    /\ (retry.last_exception # NoError /\ ~retry_on(retry.last_exception))
          => /\ retry.pc = "raised"
             /\ retry.raised = retry.last_exception
             /\ retry.raised.id = retry.calls
             /\ Len(retry.sleeps) = retry.calls - 1
    /\ (retry.retry_on = "never" /\ retry.pc # "idle")
          => /\ retry.calls <= 1
             /\ retry.sleeps = <<>>
             /\ (retry.pc = "raised" => retry.raised.id = 1)

C4_Witness ==
    /\ retry.pc = "raised"
    /\ retry.retry_on = "never"
    /\ retry.max_retries = 3
    /\ retry.calls = 1
    /\ retry.sleeps = <<>>
    /\ retry.raised = retry.last_exception

Last(q) == q[Len(q)]
Terminal == {"SUCCESS", "FAILURE"}
TerminalWritten == \E i \in DOMAIN writes : writes[i].state \in Terminal

C5_Snapshots ==
    /\ \A i, k \in DOMAIN writes :
          (i < k /\ writes[i].state = "PROCESSING"
                 /\ writes[k].state = "PROCESSING")
              => writes[i].step <= writes[k].step
    /\ \A i \in DOMAIN writes :
          writes[i].state \in Terminal
              => i = Len(writes) /\ pipe.pc \in {"returned", "raised"}

\* C5: in one run of process_document_pipeline the step indices of the
\* PROCESSING snapshots written are non-decreasing, a SUCCESS or FAILURE
\* snapshot is the last snapshot and is written when the run is over, and
\* after it no step is invoked and no snapshot is written.
C5_MonotoneThenTerminal ==
    /\ []C5_Snapshots
    /\ [][TerminalWritten => (writes' = writes /\ pipe'.calls = pipe.calls)]_vars

C5_Witness ==
    /\ pipe.pc = "returned"
    /\ Len(writes) = 7
    /\ writes[3].step = 3 /\ writes[4].step = 3
    /\ Last(writes).state = "SUCCESS"

Required == {"extract", "classify", "persist"}
StepOrder == [extract |-> 1, classify |-> 2, embed |-> 3, persist |-> 4]
CallEvent == [extract |-> "call_extract", classify |-> "call_classify",
              embed |-> "call_embed", persist |-> "call_persist"]
CallEvents == {CallEvent[st] : st \in Steps}
CallIndexes == {i \in DOMAIN pipe.events : pipe.events[i] \in CallEvents}
LastCall == CHOOSE i \in CallIndexes : \A k \in CallIndexes : k <= i
AfterLastCall == SubSeq(pipe.events, LastCall + 1, Len(pipe.events))
IsPrefix(a, b) == Len(a) <= Len(b) /\ a = SubSeq(b, 1, Len(a))
Compensation(st) ==
    IF st = "persist" THEN <<"close_pool", "delete", "snapshot", "raise">>
    ELSE <<"delete", "snapshot", "raise">>

Decided(j) ==
    /\ poll[j].pc \in {"build", "send", "send_error", "done"}
    /\ poll[j].state \notin {"", "unreachable"}

\* the heartbeat of a poll: the task is PROCESSING and the last recorded send
\* is at least HEARTBEAT_INTERVAL seconds old
HeartbeatDue(j) ==
    poll[j].state = "PROCESSING" /\ poll[j].elapsed >= HEARTBEAT_INTERVAL

C9_TerminalSentThenDropped ==
    \A j \in Tasks :
        /\ poll[j].pc = "done" /\ poll[j].ret =>
               poll[j].delivered /\ poll[j].state \in TerminalStates
        /\ ~ /\ j \in poller.subscribed_tasks
             /\ poll[j].pc = "idle"
             /\ is_connection_open /\ peer = "up"
             /\ store[j].state \in TerminalStates
             /\ poller.last_states[j] =
                    StateKey(j, store[j].state, InfoOf(store[j]))

\* a poll of a task with no recorded key that found a SUCCESS entry in Redis
Late(j) == poll[j].fresh /\ poll[j].from_store /\ poll[j].state = "SUCCESS"

\* C10: a poll of a newly subscribed task whose Redis entry is SUCCESS decides
\* to send; when the entry is still there for the payload and the send goes
\* through, the client gets the "success" message with the stored result and
\* its document id, the task is dropped, and no pipeline step has run
C10_LateSubscriberGetsResult ==
    \A j \in Tasks :
        Late(j) /\ Decided(j) =>
            LET p == poll[j]
            IN  /\ p.should_send
                /\ pipe.calls = NoCalls /\ writes = <<>>
                /\ p.pc = "done" /\ p.outcome = "ok"
                       /\ p.reread.state = "SUCCESS" =>
                       /\ p.delivered /\ p.ret
                       /\ p.payload =
                            [NoMessage EXCEPT
                               !.task_id = j, !.message = "success", !.step = 7,
                               !.has_result = TRUE,
                               !.result = p.reread.result,
                               !.document = p.reread.result.document_id]
                       /\ p.payload.document = j

C10_Witness ==
    \E j \in Tasks :
        /\ Late(j)
        /\ poll[j].pc = "done"
        /\ poll[j].delivered
        /\ poll[j].ret
        /\ poll[j].payload.result.present
        /\ poll[j].payload.document = j

\* a poll tick starts: some poll_single_task leaves for its Redis read
TickStarts == \E j \in Tasks : poll[j].pc = "idle" /\ poll'[j].pc = "get_state"

\* C11: when run_polling_loop has returned the message handler is finished or
\* cancelled, whatever ended the loop; and once the connection flag is down
\* (the handler saw the disconnect) the loop starts no further tick: it only
\* finishes the gather and the sleep it is in and then returns
C11_TeardownStep ==
    ~poller.connection_open =>
        /\ ~TickStarts
        /\ poller'.loop_pc # "gather" \/ poller.loop_pc = "gather"
        /\ poller.loop_pc = "top" /\ poller'.loop_pc # "top" =>
               poller'.loop_pc = "closed"
        /\ poller.loop_pc = "closed" => poller'.loop_pc = "closed"
        /\ ~poller'.connection_open

C11_BothTasksEnd ==
    /\ [](poller.loop_pc = "closed" =>
              poller.handler_pc = "done" /\ ~poller.connection_open)
    /\ [](poller.handler_pc = "done" => ~poller.connection_open)
    /\ [][C11_TeardownStep]_vars

\* the loop was ended from its side while the client was still there and
\* tasks were subscribed; the handler went with it
C11_Witness ==
    /\ poller.loop_pc = "closed"
    /\ poller.handler_pc = "done"
    /\ peer = "up"
    /\ poller.subscribed_tasks # {}

\* a step of the connection: of the message handler, the polling loop or a
\* poll, or the client going away
PollerStep == poller' # poller \/ poll' # poll \/ peer' # peer

\* C12: no step of a poller (subscribe, unsubscribe, poll tick, disconnect,
\* teardown) changes a Redis entry or anything of a pipeline run; the entries
\* change only by a worker's write or by the TTL, so a final snapshot stays
\* readable whatever the connections do
C12_PollerOnlyReads ==
    [][PollerStep => store' = store /\ pipe' = pipe /\ writes' = writes]_vars

\* the connection is gone after a terminal payload was due, and the final
\* snapshot is still in Redis
C12_Witness ==
    \E j \in Tasks :
        /\ poller.loop_pc = "closed"
        /\ j \in poller.subscribed_tasks
        /\ store[j].state \in {"SUCCESS", "FAILURE"}

\* C13: a call of set_task_state_in_redis returns normally whether or not the
\* write reached Redis: the step that made the call goes on as it does after a
\* write that succeeded, never into the except handler, and a run whose every
\* write is lost still ends returned or raised by its steps' outcomes alone
C13_WriteFailureStep ==
    Len(writes') > Len(writes) =>
        /\ pipe'.pc # "handler"
        /\ pipe'.exhausted = pipe.exhausted
        /\ pipe'.pc = "raised" => pipe.pc = "report"
        /\ pipe'.pc = "returned" => pipe.pc = "finalize"

C13_WritesNeverRaise ==
    /\ [][C13_WriteFailureStep]_vars
    /\ [](pipe.pc \in {"handler", "report", "raised"} =>
              /\ pipe.exhausted \in Required
              /\ pipe.calls[pipe.exhausted] = MAX_RETRIES + 1)
    /\ [](pipe.pc = "returned" =>
              /\ \A st \in Required : pipe.calls[st] >= 1
              /\ pipe.exhausted = "none"
              /\ pipe.persisted)

\* a run that returned although none of its seven writes reached Redis
C13_Witness ==
    /\ pipe.pc = "returned"
    /\ Len(writes) = 7
    /\ store[pipe.task_id] = NoSnapshot

\* C14: a poll whose read of the Redis entry failed is told so: it does not
\* get the answer it gets for a task without an entry
C14_ReadFailureIsTold ==
    \A j \in Tasks : poll[j].read # "failed_as_absent"

RECURSIVE Power(_, _)
Power(b, n) == IF n = 0 THEN 1 ELSE b * Power(b, n - 1)

\* C15: the delay slept before retry number k+1 is
\* min(initial_delay * backoff_multiplier^k, max_delay) for every choice of
\* the parameters, so no sleep is longer than max_delay, the first included
C15_DelaySchedule ==
    \A i \in DOMAIN retry.sleeps :
        /\ retry.sleeps[i] =
              Min(retry.initial_delay * Power(retry.backoff_multiplier, i - 1),
                  retry.max_delay)
        /\ retry.sleeps[i] <= retry.max_delay

\* the delay the blocking wrapper sleeps after the i-th failed call
RECURSIVE SyncDelay(_)
SyncDelay(i) ==
    IF i = 1 THEN retry.initial_delay
    ELSE Min(SyncDelay(i - 1) * retry.backoff_multiplier, retry.max_delay)

\* where a run is after its calls so far, as a function of the parameters and
\* of the outcomes of those calls alone
RunIsFunctionOfOutcomes ==
    LET n == retry.calls
    IN  /\ \A i \in DOMAIN retry.sleeps : retry.sleeps[i] = SyncDelay(i)
        /\ retry.pc = "call" =>
              /\ Len(retry.sleeps) = n /\ retry.attempt = n
              /\ n <= retry.max_retries
              /\ retry.delay = SyncDelay(n + 1)
              /\ retry.raised = NoError
        /\ retry.pc = "sleeping" =>
              /\ Len(retry.sleeps) = n /\ retry.attempt = n - 1
              /\ n <= retry.max_retries
              /\ retry_on(retry.last_exception)
              /\ retry.delay = SyncDelay(n)
              /\ retry.raised = NoError
        /\ retry.pc = "returned" =>
              /\ Len(retry.sleeps) = n - 1 /\ retry.raised = NoError
        /\ retry.pc = "raised" =>
              /\ Len(retry.sleeps) = n - 1
              /\ retry.raised = retry.last_exception
              /\ retry.raised.id = n
              /\ ~retry_on(retry.raised) \/ n = retry.max_retries + 1

\* C16: the blocking and the suspending wrapper behave identically: for both,
\* the number of calls, the sequence of delays and the result or error of a
\* run are the same function of the parameters and of the outcomes of the
\* calls, the one the blocking wrapper computes
C16_WrappersAgree ==
    retry.wrapper \in {"sync", "async"} /\ retry.pc # "idle" =>
        RunIsFunctionOfOutcomes

\* a suspending run that slept twice with growing delays and then re-raised
C16_Witness ==
    /\ retry.wrapper = "async"
    /\ retry.pc = "raised"
    /\ Len(retry.sleeps) >= 2
    /\ retry.sleeps[2] > retry.sleeps[1]
    /\ retry.calls = retry.max_retries + 1

\* C17: after an attempt of a step failed with a non-retryable error, the
\* pipeline invokes no step again
C17_NonRetryableSurfaces ==
    [][pipe.last_error = "validation" => pipe'.calls = pipe.calls]_vars

\* the reason strings the code writes as literals into an error field: the
\* pipeline's failure snapshot and the FAILURE and REVOKED payloads of
\* _build_payload
StableReasons == {"Document processing pipeline failed after all retries",
                  "Task failed", "Task was cancelled"}

\* C18: no state-store snapshot and no message delivered to the client has
\* the raw text of an exception in its error field: the field is empty or
\* one of the fixed reason strings, also in the generic failure message of a
\* poll that raised
C18_NoRawExceptionText ==
    \A j \in Tasks :
        /\ store[j].error \in StableReasons \cup {""}
        /\ poll[j].delivered =>
              poll[j].payload.error \in StableReasons \cup {""}
        /\ poll[j].generic =>
              poll[j].error_payload.error \in StableReasons

\* the verdicts of verify_jwt_token on a token that fails authentication
AuthFailures == {"Token expired", "Invalid token"}

\* a status message of the connection is being prepared or was sent
StatusTraffic == \E j \in Tasks : poll[j] # IdlePoll

\* C19: a connection whose token fails authentication is closed with code
\* 1008, which is not the code used for other errors, and on it no handshake
\* message and no status message is sent and no poller task runs; on every
\* connection the handshake message is sent before any status message
C19_AuthGate ==
    /\ conn.verdict \in AuthFailures =>
          /\ conn.pc \in {"close", "closed"}
          /\ conn.close_code = POLICY_VIOLATION
          /\ ~conn.handshake
          /\ ~StatusTraffic
          /\ poller.loop_pc = "off" /\ poller.handler_pc = "off"
    /\ conn.verdict = "exception" =>
          conn.close_code = INTERNAL_ERROR /\ INTERNAL_ERROR # POLICY_VIOLATION
    /\ conn.token # "valid" /\ conn.pc \notin {"verify"} =>
          conn.close_code # None /\ ~conn.handshake
    /\ StatusTraffic \/ poller.loop_pc # "off" =>
          conn.handshake /\ conn.verdict = "ok"

\* the connection of an expired token was closed with 1008
C19_Witness ==
    /\ conn.token = "expired"
    /\ conn.verdict = "Token expired"
    /\ conn.pc = "closed"
    /\ conn.close_code = POLICY_VIOLATION

\* a step in which an iteration of the polling loop passes lines 287-295 and
\* sets its next target
TickEnds ==
    /\ poller.loop_pc \in {"top", "gather"}
    /\ poller'.loop_pc \in {"top", "sleep"}
    /\ poller'.next_poll_time # poller.next_poll_time

\* C20: the target times of the polling loop are t0 + k * POLL_INTERVAL: every
\* iteration moves the target by exactly POLL_INTERVAL, also an iteration
\* that ran longer than the interval; and an iteration that does not sleep
\* because it is behind leaves a target the next iteration has to sleep for
C20_FixedTargetSequence ==
    [][TickEnds =>
         /\ poller'.next_poll_time = poller.next_poll_time + POLL_INTERVAL
         /\ poller'.loop_pc = "top" =>
               poller'.next_poll_time + POLL_INTERVAL > now']_vars

\* C21: pool objects do not accumulate: every constructed pool that nobody
\* closed is registered under its loop id, and no step takes out of the
\* registry a pool that is still open, also when get_pool runs for the loop
\* id while close_pool is suspended in pool.close()
C21_NoPoolAccumulates ==
    /\ [](\A p \in Callers :
            poolState[p] = "open" => pools[poolLoop[p]] = p)
    /\ [][\A l \in Loops :
            pools[l] # None /\ pools'[l] # pools[l]
                => poolState'[pools[l]] # "open"]_vars

\* C22: when close_all_pools has returned, it returned without an error and
\* every pool that was registered when it was called has been closed (by it
\* or by another call) and is out of the registry, whatever get_pool and
\* close_pool calls ran in between
C22_CloseAllClosesAll ==
    \A t \in Callers :
        task[t].op = "close_all_pools" /\ task[t].pc = "done" =>
            /\ task[t].err = "none"
            /\ \A p \in task[t].seen :
                  /\ poolState[p] # "open"
                  /\ \A l \in Loops : pools[l] # p

\* the get_pool calls that ended with an error
FailedGetters == {t \in Callers : task[t].op = "get_pool"
                                  /\ task[t].pc = "done"
                                  /\ task[t].err # "none"}

\* C23: a get_pool whose construction fails (DATABASE_URL unset, or
\* asyncpg.create_pool raises) ends with an error and without a pool, has
\* registered nothing, and does not keep the lock: a lock is held exactly
\* while a caller is suspended in create_pool under it; and a get_pool that
\* takes the lock while no live pool is registered and DATABASE_URL is set
\* attempts the construction, whatever failed before
C23_ConstructionFailureIsLoud ==
    /\ [](\A t \in FailedGetters :
            /\ task[t].ret = None
            /\ task[t].err \in {"ValueError", "ConnectionError"}
            /\ poolState[t] = "unborn"
            /\ \A l \in Loops : pools[l] # t)
    /\ [](\A lk \in Callers :
            lockState[lk].locked <=>
                \E t \in Callers : task[t].pc = "creating" /\ task[t].lock = lk)
    /\ [][\A t \in Callers :
            /\ task[t].pc \in {"idle", "waiting"}
            /\ task'[t].op = "get_pool"
            /\ task'[t].pc \in {"creating", "done"}
            /\ ~IsLive(pools[task'[t].loop])
            /\ database_url
            => /\ task'[t].pc = "creating"
               /\ nCreate'[task'[t].loop] = nCreate[task'[t].loop] + 1]_vars

\* a caller's construction failed and a later caller constructed the pool of
\* the same loop id
C23_Witness ==
    \E t1, t2 \in Callers :
        /\ task[t1].op = "get_pool" /\ task[t1].pc = "done"
        /\ task[t1].err = "ConnectionError"
        /\ task[t2].op = "get_pool" /\ task[t2].pc = "done"
        /\ task[t2].loop = task[t1].loop
        /\ task[t2].ret = t2 /\ pools[task[t2].loop] = t2
        /\ nCreate[task[t1].loop] = 2
        /\ ~lockState[task[t1].lock].locked

\* the snapshot of lines 770-776
SkipSnapshot ==
    Snapshot("PROCESSING", 3, "Skipping embeddings (insufficient content)...",
             "", NoResult)

\* the snapshots written so far
Written == {writes[i] : i \in DOMAIN writes}

\* step 3 is behind the run
PastEmbedding ==
    \/ pipe.pc \in {"save", "persist", "finalize", "returned"}
    \/ pipe.calls["persist"] > 0

C25_ResultXorError ==
    \A i \in DOMAIN writes :
        /\ writes[i].state = "SUCCESS" =>
              /\ writes[i].result.present
              /\ writes[i].result.document_id = pipe.document_id
              /\ writes[i].result.classification # "None"
              /\ writes[i].result.token_usage # "None"
              /\ writes[i].result.embedding = pipe.embedding_result
              /\ writes[i].error = ""
        /\ writes[i].state = "FAILURE" =>
              /\ writes[i].error # ""
              /\ writes[i].result = NoResult
        /\ writes[i].state \in Terminal =>
              (writes[i].result.present <=> writes[i].error = "")

\* a run that ended with the SUCCESS snapshot and an embedding in its result
C25_Witness ==
    /\ pipe.pc = "returned"
    /\ Last(writes).state = "SUCCESS"
    /\ Last(writes).result.embedding = "embedding"
    /\ Last(writes).result.document_id = pipe.document_id

\* the run is over
PipelineOver == pipe.pc \in {"returned", "raised"}

DeleteFailed == pipe.deletes = 1 /\ pipe.document # "deleted"

\* the FAILURE snapshot is written and the pipeline failure is raised
FailureReported ==
    /\ pipe.pc = "raised"
    /\ writes # <<>>
    /\ Last(writes).state = "FAILURE"
    /\ Last(writes).error = "Document processing pipeline failed after all retries"
    /\ Last(pipe.events) = "raise"

Stepped == {i \in DOMAIN writes : writes[i].step # None}

\* C28: the snapshots of one run are written in strictly increasing step
\* order: of two snapshots with a step the later one has the larger step, so
\* no two have the same step
C28_StrictStepOrder ==
    \A i, k \in Stepped : i < k => writes[i].step < writes[k].step

\* the states of the wire format
WireStates == {"PENDING", "PROCESSING", "SUCCESS", "FAILURE"}

\* C29: every snapshot the pipeline writes has the wire format: its state is
\* PENDING, PROCESSING, SUCCESS or FAILURE and its meta has an integer step
\* and a message, whatever the state
C29_WireFormat ==
    \A i \in DOMAIN writes :
        /\ writes[i].state \in WireStates
        /\ writes[i].step # None /\ writes[i].step \in Nat
        /\ writes[i].message # ""

\* retry_with_backoff.sync_wrapper, lines 69 and 97-100: the delay slept after
\* the i-th failed call, for the given decorator arguments
RECURSIVE WrapperDelay(_, _, _, _)
WrapperDelay(i, initial_delay, backoff_multiplier, max_delay) ==
    IF i = 1 THEN initial_delay
    ELSE Min(WrapperDelay(i - 1, initial_delay, backoff_multiplier, max_delay)
                 * backoff_multiplier,
             max_delay)

\* sync_wrapper, lines 71-106, with retry_on always true: the number of calls
\* made and of sleeps taken when the first f calls fail
WrapperCalls(f, max_retries) == Min(f, max_retries) + 1

WrapperSleeps(f, max_retries) == Min(f, max_retries)

\* the delays the pipeline slept in the loop of a step, in order
RECURSIVE SleepsOf(_, _)
SleepsOf(st, q) ==
    IF q = <<>> THEN <<>>
    ELSE IF Head(q).step = st
    THEN <<Head(q).backoff>> \o SleepsOf(st, Tail(q))
    ELSE SleepsOf(st, Tail(q))

\* the attempts of a step that failed so far
Failures(st) ==
    Len(SleepsOf(st, pipe.sleeps))
        + (IF pipe.exhausted = st \/ (st = "embed" /\ pipe.embed_exhausted)
           THEN 1 ELSE 0)

\* the loop of the step is left
LoopLeft(st) ==
    \/ pipe.exhausted = st
    \/ st = "embed" /\ pipe.embed_exhausted
    \/ pipe.calls[st] > Len(SleepsOf(st, pipe.sleeps))

\* C30: each step loop of the pipeline behaves like retry_with_backoff with
\* max_retries = 3, initial_delay = 2, backoff_multiplier = 2, max_delay = 60
\* and a predicate that is always true: for the same failures it makes the
\* same number of invocations and sleeps the same delays, 2, 4 and 8 seconds
\* before the 2nd, 3rd and 4th attempt; and the PROCESSING snapshot with the
\* step index is written before the first attempt of a step
C30_LoopsMatchPrimitive ==
    \A st \in Steps :
        LET slept == SleepsOf(st, pipe.sleeps)
        IN  /\ \A i \in DOMAIN slept : slept[i] = WrapperDelay(i, 2, 2, 60)
            /\ Len(slept) >= 1 => slept[1] = 2
            /\ Len(slept) >= 2 => slept[2] = 4
            /\ Len(slept) >= 3 => slept[3] = 8
            /\ Len(slept) = WrapperSleeps(Failures(st), 3)
            /\ LoopLeft(st) => pipe.calls[st] = WrapperCalls(Failures(st), 3)
            /\ ~LoopLeft(st) => pipe.calls[st] = Failures(st)
            /\ pipe.calls[st] > 0 =>
                  \E i \in DOMAIN writes :
                      /\ writes[i].state = "PROCESSING"
                      /\ writes[i].step = StepOrder[st]

\* Extract failed twice and then succeeded: the delays were 2 and 4
C30_Witness ==
    /\ pipe.pc = "classify"
    /\ pipe.calls["extract"] = 3
    /\ pipe.sleeps = <<[step |-> "extract", backoff |-> 2],
                       [step |-> "extract", backoff |-> 4]>>

\* C31: what a control message does to the subscription: subscribe and update
\* add the task ids to the subscribed set and change nothing else, a message
\* without an action does what subscribe does, unsubscribe removes the ids
\* and clears their dedup key and last-sent time, any other action changes
\* nothing, and subscribing to ids already subscribed changes nothing
C31_ControlMessages ==
    \A ids \in SUBSET Tasks :
        /\ \A a \in {"subscribe", "update", "absent"} :
              handle_message(a, ids) =
                  [poller EXCEPT !.subscribed_tasks = @ \cup ids]
        /\ handle_message("absent", ids) = handle_message("subscribe", ids)
        /\ LET u == handle_message("unsubscribe", ids)
           IN  /\ u.subscribed_tasks = poller.subscribed_tasks \ ids
               /\ \A j \in Tasks :
                     IF j \in ids
                     THEN u.last_states[j] = NoKey
                          /\ u.last_update_times[j] = 0
                     ELSE u.last_states[j] = poller.last_states[j]
                          /\ u.last_update_times[j] = poller.last_update_times[j]
               /\ [u EXCEPT !.subscribed_tasks = poller.subscribed_tasks,
                            !.last_states = poller.last_states,
                            !.last_update_times = poller.last_update_times]
                     = poller
        /\ handle_message("ping", ids) = poller
        /\ ids \subseteq poller.subscribed_tasks =>
              handle_message("subscribe", ids) = poller

\* a subscribed task with a recorded dedup key, for which an unsubscribe has
\* something to clear and a subscribe nothing to add
C31_Witness ==
    /\ poller.handler_pc = "receive"
    /\ \E j \in poller.subscribed_tasks :
          /\ poller.last_states[j] # NoKey
          /\ poller.last_update_times[j] # 0
          /\ handle_message("unsubscribe", {j}) # poller
          /\ handle_message("update", {j}) = poller

\* the step in which the Embed attempts run out
EmbedExhausts == ~pipe.embed_exhausted /\ pipe'.embed_exhausted

\* C32: exhausting the retries of Embed never triggers the compensating
\* delete of the document and never sets the job to FAILURE, in the pipeline's
\* step 3 and in the standalone generate_embedding_task: the step in which
\* the last Embed attempt fails deletes nothing, stores no FAILURE and does
\* not leave the task through an error.
C32_EmbedExhaustionNotFatal ==
    [][EmbedExhausts =>
          /\ pipe'.deletes = pipe.deletes
          /\ pipe'.document = pipe.document
          /\ pipe'.celery_state # "FAILURE"
          /\ pipe'.pc \notin {"handler", "report", "raised"}
          /\ writes' = writes]_vars
\* C34: the compensating delete runs only when a required step has exhausted
\* its retries: once Persist has succeeded, no later event (a failing
\* progress-state update, a failing pool close, a failing snapshot write)
\* deletes the document or sets the job to FAILURE.
C34_NoCompensationAfterPersist ==
    pipe.persisted =>
        /\ pipe.deletes = 0
        /\ pipe.document = "written"
        /\ pipe.celery_state # "FAILURE"
        /\ pipe.pc \notin {"handler", "report", "raised"}
        /\ \A i \in DOMAIN writes : writes[i].state # "FAILURE"
\* C38: when the pipeline returns or raises, no pool created for a loop the
\* pipeline opened is still registered: every loop (Embed, Persist, the
\* compensating delete) has close_pool called before the loop is closed, on
\* the success and on the failure paths.
C38_NoPoolOutlivesItsLoop ==
    /\ pipe.close_pool_calls = pipe.loops_opened
    /\ pipe.loops_closed = pipe.loops_opened
    /\ pipe.pc \in {"returned", "raised"} => pipe.registered = {}
\* a Redis entry that has meta but no key "state"
StatelessEntry ==
    [Snapshot("missing", 2, "Classifying document...", "", NoResult)
        EXCEPT !.state = "missing"]

\* the poll of j leaves its read of the task state
StateRead(j) ==
    /\ poll[j].pc = "get_state"
    /\ poll'[j].pc \notin {"get_state", "idle"}

\* C33: the poller reads a job's status from the state store first and
\* consults the work queue's status API only when the store has no entry for
\* the id; when the store has an entry, the state and meta the poll goes on
\* with are the store's, and an entry without a state field is reported as
\* PENDING.
C33_StoreFirst ==
    /\ [][\A j \in Tasks :
            StateRead(j) =>
                IF store[j] # NoSnapshot
                THEN /\ poll'[j].from_store
                     /\ poll'[j].state = store[j].state
                     /\ poll'[j].info = InfoOf(store[j])
                ELSE ~poll'[j].from_store]_vars
    /\ [](\A j \in Tasks : \A celery \in BackendValues(j) :
            /\ get_task_state(StatelessEntry, celery).state = "PENDING"
            /\ get_task_state(StatelessEntry, celery).info =
                  InfoOf(StatelessEntry)
            /\ get_task_state(StatelessEntry, celery).from_store)
\* send_json of a message about j delivers it to the client in this step
Delivers(j) ==
    \/ poll[j].pc = "send" /\ poll'[j].pc # "send" /\ poll'[j].delivered
    \/ poll[j].pc = "send_error" /\ poll'[j].pc # "send_error"
          /\ poll'[j].generic

\* C35: no status message is sent for a job id that is not in the
\* subscription set at the moment of sending: once an unsubscribe for j has
\* been processed no status for j goes out until j is subscribed again, also
\* when the unsubscribe arrives while a poll of j is in flight.
C35_OnlySubscribedAreSent ==
    [][\A j \in Tasks : Delivers(j) => j \in poller.subscribed_tasks]_vars
\* the job ids that have a last-sent dedup key or a last-sent timestamp
Remembered ==
    {j \in Tasks : poller.last_states[j] # NoKey
                    \/ poller.last_update_times[j] # 0}

\* C36: after any interleaving of control messages and poll ticks, the job
\* ids that have a last-sent dedup key or last-sent timestamp are a subset of
\* the subscribed set, so that a job that was unsubscribed and subscribed
\* again has no key and its first poll decides to send.
C36_DedupOnlyForSubscribed ==
    /\ [](Remembered \subseteq poller.subscribed_tasks)
    /\ [][\A j \in Tasks :
            (StateRead(j) /\ poll'[j].fresh /\ poll'[j].outcome # "raised")
                => poll'[j].should_send]_vars
\* the poll of j decided to send, and building or sending then failed while
\* the client was still connected
SendFailed(j) ==
    /\ poll[j].pc \in {"send_error", "done"}
    /\ poll[j].should_send
    /\ ~poll[j].delivered
    /\ poll[j].outcome \in {"runtime_error", "error"}

\* C37: the last-sent dedup key recorded for a job always equals the key of
\* the last status message actually delivered for it: a key is recorded only
\* in a step that delivers the message with that key, and when building or
\* sending fails while the connection stays open the key of the update is
\* not recorded, so that the next tick attempts it again.
C37_KeyMeansDelivered ==
    /\ [][\A j \in Tasks :
            (poller'.last_states[j] # poller.last_states[j]
                /\ poller'.last_states[j] # NoKey)
            => /\ poll'[j].delivered
               /\ poller'.last_states[j] =
                     StateKey(j, poll'[j].state, poll'[j].info)]_vars
    /\ [](\A j \in Tasks :
            SendFailed(j) =>
                poller.last_states[j] #
                    StateKey(j, poll[j].state, poll[j].info))
====
